---- MODULE Spec2Model ----
(***************************************************************************)
(* Verification model of the pyisis record store: the cross-reference      *)
(* file (.xrf) with its paged cache (pyisis/files.py XrfCache,             *)
(* pyisis/records.py XrfRecord) and the master file (.mst) with its        *)
(* records (pyisis/files.py MasterFile, pyisis/records.py MasterRecord).   *)
(*                                                                         *)
(* Files are modelled sparsely.  The .xrf file is its size plus the 32-bit *)
(* words that are not zero, keyed by byte offset.  The .mst file is its    *)
(* size plus the records that are intact on it, keyed by the byte offset   *)
(* of their leader; a write that overlaps a stored record removes that     *)
(* record from the map (its bytes are no longer a record).  Field data are *)
(* ASCII strings, so a character is a byte.                                *)
(***************************************************************************)
EXTENDS Integers, Sequences, FiniteSets, TLC

VARIABLES
    mftype,     \* MasterFile.mftype
    nxtmfn,     \* MasterFile.nxtmfn (in memory)
    nxtmfb,     \* MasterFile.nxtmfb (in memory)
    nxtmfp,     \* MasterFile.nxtmfp (in memory)
    ctl,        \* control header as last written by _write_control
    mst,        \* .mst: byte offset of a leader -> record stored there
    mstSize,    \* .mst: size in bytes
    mstDirty,   \* mst_fd holds written data that was not flushed
    xrfFd,      \* .xrf: [size, words] (XrfCache._fd)
    xrfDirty,   \* XrfCache._fd holds written data that was not flushed
    xrf,        \* XrfCache._xrf: mfn -> entry (entries decoded from a zero slot left out)
    xrfLoaded,  \* block indexes whose entries are in XrfCache._xrf
    pc,         \* position inside MasterRecord.save: "idle" or "save_xrf"
    pend,       \* locals of the save in progress
    lastOp,     \* the last public call, its arguments and its outcome
    nsaves,     \* number of saves started so far
    _cache,     \* session._cache: expression -> the chain of its formatter
    config,     \* Session.config of every session: its MAX_LINE_WIDTH
    frame,      \* the call of session.format every session is in
    _ref_record_cache,  \* ast._ref_record_cache: dbase -> (mfn -> record)
    lastRef,    \* the last evaluation of a Ref node and its outcome
    lexer       \* Session.lexer: the state of its PLY lexer and the tokens it gave

vars == <<mftype, nxtmfn, nxtmfb, nxtmfp, ctl, mst, mstSize, mstDirty,
          xrfFd, xrfDirty, xrf, xrfLoaded, pc, pend, lastOp, nsaves,
          _cache, config, frame, _ref_record_cache, lastRef, lexer>>

\* the cross-database references
refs == <<_ref_record_cache, lastRef>>

\* what the calls on the database leave alone
formatter == <<_cache, config, frame, _ref_record_cache, lastRef, lexer>>

----------------------------------------------------------------------------
(* Bounds of the model *)

\* number of MasterRecord.save calls in one behaviour
MaxSaves == 2

\* number of XRF blocks the .xrf file may grow to in XrfSpec
MaxXrfBlocks == 4

----------------------------------------------------------------------------
(* Configuration (pyisis/config.py, Config.__init__) *)

BLOCK_SIZE == 512
POINTER_SIZE == 4
LAST_XRF_BLOCK == -1
CTRL_SIZE == 64
XRF_BLOCK == 2048
XRF_OFFSET == 511
XRF_NEW_FLAG == 1024
XRF_MODIFIED_FLAG == 512
POINTER_PER_BLOCK == (BLOCK_SIZE \div POINTER_SIZE) - 1
\* int(log(BLOCK_SIZE, 2))
BLOCK_POWER == 9
\* calcsize("<iHHiHHHH"), LEADER_XL is True
LEADER_SIZE == 20
\* calcsize("<HHH")
DIR_SIZE == 6
\* calcsize(LEADER_MASK[:-1]): offset of the status field inside the leader
LEADER_OFFSET_STATUS == 18

(* Status values of a record leader (pyisis/records.py) *)
ACTIVE == 0
LOGICALLY_DELETED == 1
PHYSICALLY_DELETED == 2

----------------------------------------------------------------------------
(* Integer arithmetic of Python 2: bit operations on unbounded integers *)

Abs(x) == IF x < 0 THEN -x ELSE x

Max(a, b) == IF a >= b THEN a ELSE b

\* a & b for a, b >= 0
RECURSIVE NatAnd(_, _)
NatAnd(a, b) ==
    IF a = 0 \/ b = 0 THEN 0
    ELSE (a % 2) * (b % 2) + 2 * NatAnd(a \div 2, b \div 2)

\* x & m for any x and m >= 0 (two's complement: x = ~(-x-1) when x < 0)
BitAnd(x, m) == IF x >= 0 THEN NatAnd(x, m) ELSE m - NatAnd(-x - 1, m)

\* a | b for a, b >= 0
RECURSIVE NatOr(_, _)
NatOr(a, b) ==
    IF a = 0 THEN b
    ELSE IF b = 0 THEN a
    ELSE (IF a % 2 = 1 \/ b % 2 = 1 THEN 1 ELSE 0) + 2 * NatOr(a \div 2, b \div 2)

\* x >> n and x << n
Shr(x, n) == x \div (2 ^ n)
Shl(x, n) == x * (2 ^ n)

\* ~x
BitNot(x) == -x - 1

----------------------------------------------------------------------------
(* XrfRecord (pyisis/records.py) *)

\* XrfRecord._get_record_offset: block index, offset in block, offset in file
XrfRecordOffset(mfn) ==
    LET block_idx == (mfn - 1) \div POINTER_PER_BLOCK
        offset    == (mfn - 1) % POINTER_PER_BLOCK
        relative_offset == (offset + 1) * POINTER_SIZE
    IN  [block_idx |-> block_idx + 1,
         relative_offset |-> relative_offset,
         absolute_offset |-> block_idx * BLOCK_SIZE + relative_offset]

\* XrfRecord.decode_status
decode_status(block, offset) ==
    IF block < 0 /\ offset > 0 THEN "logically deleted"
    ELSE IF block = -1 /\ offset = 0 THEN "physically deleted"
    ELSE IF block = 0 /\ offset = 0 THEN "inexistent"
    ELSE IF block = 0 THEN "invalid"
    ELSE "active"

\* XrfRecord.decode; the flags of an extra-large file are integers used for
\* their truth value only
decode(value, extra_large) ==
    IF extra_large # 0
    THEN [block  |-> value \div Shr(XRF_BLOCK, extra_large),
          offset |-> Shl(NatAnd(Abs(value), Shr(XRF_OFFSET, extra_large)), extra_large),
          new_flag |->
              Shl(NatAnd(Abs(value), Shr(XRF_NEW_FLAG, extra_large)), extra_large) # 0,
          modified_flag |->
              Shl(NatAnd(Abs(value), Shr(XRF_MODIFIED_FLAG, extra_large)), extra_large) # 0]
    ELSE [block  |-> Abs(value) \div XRF_BLOCK,
          offset |-> Shl(NatAnd(Abs(value), Shr(XRF_OFFSET, extra_large)), extra_large),
          new_flag |-> Abs(BitAnd(value, XRF_NEW_FLAG)) = XRF_NEW_FLAG,
          modified_flag |-> Abs(BitAnd(value, XRF_MODIFIED_FLAG)) = XRF_MODIFIED_FLAG]

\* XrfRecord.__init__: the entry decoded from the word of a slot
XrfRecord(value, extra_large) ==
    LET d == decode(value, extra_large)
    IN  [block |-> d.block, offset |-> d.offset,
         new_flag |-> d.new_flag, modified_flag |-> d.modified_flag,
         status |-> decode_status(d.block, d.offset)]

\* XrfRecord.update(abs_mst_offset, 'active', new, modified), the only status
\* it is called with
update(entry, abs_mst_offset, new, modified) ==
    [block  |-> (abs_mst_offset \div BLOCK_SIZE) + 1,
     offset |-> abs_mst_offset % BLOCK_SIZE,
     new_flag |-> new, modified_flag |-> modified,
     status |-> "active"]

\* XrfRecord.encode
encode(entry, extra_large) ==
    IF entry.status = "inexistent" THEN 0
    ELSE IF entry.status = "physically deleted" THEN -2048
    ELSE
      LET masked == IF extra_large # 0
                    THEN Shl(NatAnd(entry.offset, Shr(511, extra_large)), extra_large)
                    ELSE NatAnd(entry.offset, 511)
          xrmfp  == masked + (IF entry.new_flag THEN 1024 ELSE 0)
                           + (IF entry.modified_flag THEN 512 ELSE 0)
      IN  IF extra_large # 0
          THEN NatOr(entry.block * Shr(2048, extra_large), xrmfp)
          ELSE NatOr(entry.block * 2048, xrmfp)

\* the word XrfRecord._write packs into the slot of the entry
WrittenWord(entry, extra_large) ==
    IF entry.status = "logically deleted"
    THEN Shr((BitNot(encode(entry, extra_large)) + 1) * 256, 8)
    ELSE encode(entry, extra_large)

----------------------------------------------------------------------------
(* The .xrf file and XrfCache (pyisis/files.py) *)

\* the 32-bit word at a byte offset of the file (zero where nothing else was written)
WordAt(fd, off) == IF off \in DOMAIN fd.words THEN fd.words[off] ELSE 0

\* fd.seek(off); fd.write(pack("i", word))
PutWord(fd, off, word) ==
    [size  |-> Max(fd.size, off + POINTER_SIZE),
     words |-> [o \in (DOMAIN fd.words \ {off}) \cup (IF word = 0 THEN {} ELSE {off}) |->
                    IF o = off THEN word ELSE fd.words[o]]]

\* an append that leaves the header of the block before the new one as it was
add_empty_block_keeping_header(fd) ==
    LET XBS     == (POINTER_PER_BLOCK + 1) * 4
        fd_pos  == fd.size
        header  == IF fd_pos = 0 THEN LAST_XRF_BLOCK
                   ELSE ((fd_pos \div XBS) + 1) * (-1)
    IN  [PutWord(fd, fd_pos, header) EXCEPT
            !.size = fd_pos + POINTER_SIZE + POINTER_PER_BLOCK * 4]

\* XrfCache._add_empty_block
add_empty_block(fd) ==
    LET XBS     == (POINTER_PER_BLOCK + 1) * 4
        fd_pos  == fd.size
        header  == IF fd_pos = 0 THEN LAST_XRF_BLOCK
                   ELSE ((fd_pos \div XBS) + 1) * (-1)
        fd1     == PutWord(fd, fd_pos, header)
        \* POINTER_PER_BLOCK zero slots follow the header
        fd2     == [fd1 EXCEPT !.size = fd_pos + POINTER_SIZE + POINTER_PER_BLOCK * 4]
        prev    == fd2.size - XBS * 2
    IN  IF fd2.size >= XBS * 2
        THEN PutWord(fd2, prev, (prev \div XBS) + 1)
        ELSE fd2

\* fd.seek((block_idx-1) * BLOCK_SIZE); fd.read(BLOCK_SIZE) returns data
BlockOnFile(fd, block_idx) == (block_idx - 1) * BLOCK_SIZE < fd.size

\* the mfns whose slots are in a block
MfnsInBlock(block_idx) ==
    LET first_mfn_in_block == POINTER_PER_BLOCK * (block_idx - 1) + 1
    IN  first_mfn_in_block .. (first_mfn_in_block + POINTER_PER_BLOCK - 1)

\* XrfCache._read_block: [fd, xrf, loaded, ok]; ok is false when the unpack of
\* an empty block raises struct.error
read_block(fd, cache, loaded, mfn, extra_large) ==
    LET block_idx == XrfRecordOffset(mfn).block_idx
        fd1 == IF BlockOnFile(fd, block_idx) THEN fd ELSE add_empty_block(fd)
        fd2 == IF BlockOnFile(fd1, block_idx) THEN fd1 ELSE add_empty_block(fd1)
        fdR == IF BlockOnFile(fd, block_idx) THEN fd ELSE fd1
        stored == {m \in MfnsInBlock(block_idx) :
                      XrfRecordOffset(m).absolute_offset \in DOMAIN fdR.words}
    IN  IF BlockOnFile(fdR, block_idx)
        THEN [fd |-> fdR,
              xrf |-> [m \in DOMAIN cache \cup stored |->
                         IF m \in stored
                         THEN XrfRecord(fdR.words[XrfRecordOffset(m).absolute_offset],
                                        extra_large)
                         ELSE cache[m]],
              loaded |-> loaded \cup {block_idx},
              ok |-> TRUE]
        ELSE [fd |-> fd2, xrf |-> cache, loaded |-> loaded, ok |-> FALSE]

\* the entry XrfCache._xrf holds for an mfn of a loaded block (or for mfn 0)
CachedEntry(cache, mfn, extra_large) ==
    IF mfn \in DOMAIN cache THEN cache[mfn] ELSE XrfRecord(0, extra_large)

\* XrfCache.__getitem__: [fd, xrf, loaded, ok, entry]
getitem(fd, cache, loaded, mfn, extra_large) ==
    IF mfn = 0 \/ XrfRecordOffset(mfn).block_idx \in loaded
    THEN [fd |-> fd, xrf |-> cache, loaded |-> loaded, ok |-> TRUE,
          entry |-> CachedEntry(cache, mfn, extra_large)]
    ELSE LET r == read_block(fd, cache, loaded, mfn, extra_large)
         IN  [fd |-> r.fd, xrf |-> r.xrf, loaded |-> r.loaded, ok |-> r.ok,
              entry |-> CachedEntry(r.xrf, mfn, extra_large)]

\* XrfRecord._write: seek to the slot, write the word (and flush)
write_entry(fd, mfn, entry, extra_large) ==
    PutWord(fd, XrfRecordOffset(mfn).absolute_offset, WrittenWord(entry, extra_large))

\* xrf_fd.flush() at the end of XrfRecord._write
flush_xrf(dirty) == FALSE

\* the cache with the entry of an mfn replaced (the entry object is mutated in place)
SetEntry(cache, mfn, entry) ==
    [m \in DOMAIN cache \cup {mfn} |-> IF m = mfn THEN entry ELSE cache[m]]

----------------------------------------------------------------------------
(* MasterRecord (pyisis/records.py).  A record in memory is                *)
(* [mfn, status, mfbwb, mfbwp, fields]; fields is the dict of the record   *)
(* in its iteration order: a sequence of [tag, container, occs] with       *)
(* distinct tags, container telling a MasterContainerField (a list of      *)
(* occurrences) from a MasterField (one occurrence).                       *)

\* MasterRecord.get_fields: the flat sequence of (tag, data) of all occurrences
RECURSIVE get_fields(_)
get_fields(fields) ==
    IF fields = <<>> THEN <<>>
    ELSE [i \in 1..Len(Head(fields).occs) |->
             [tag |-> Head(fields).tag, data |-> Head(fields).occs[i]]]
         \o get_fields(Tail(fields))

\* MasterRecord.get_tags
get_tags(fields) == {fields[i].tag : i \in 1..Len(fields)}

\* the data of a tag: MasterField.data, or MasterContainerField._get_data
\* (the occurrences joined by the empty string)
RECURSIVE Join(_)
Join(occs) == IF occs = <<>> THEN "" ELSE Head(occs) \o Join(Tail(occs))

\* the occurrences stored under a tag (empty when the tag is no key)
OccsOf(fields, tag) ==
    IF tag \in get_tags(fields)
    THEN (CHOOSE f \in {fields[i] : i \in 1..Len(fields)} : f.tag = tag).occs
    ELSE <<>>

\* sum([len(f.data.encode(encoding)) for f in fields])
RECURSIVE DataLength(_)
DataLength(flat) ==
    IF flat = <<>> THEN 0 ELSE Len(Head(flat).data) + DataLength(Tail(flat))

\* the directory written by save: (tag, relative_offset, length) per occurrence
RECURSIVE dir_entries(_, _)
dir_entries(flat, relative_offset) ==
    IF flat = <<>> THEN <<>>
    ELSE <<[tag |-> Head(flat).tag, pos |-> relative_offset,
            len |-> Len(Head(flat).data)]>>
         \o dir_entries(Tail(flat), relative_offset + Len(Head(flat).data))

\* "".join([field.data for field in fields])
RECURSIVE raw_data(_)
raw_data(flat) == IF flat = <<>> THEN "" ELSE Head(flat).data \o raw_data(Tail(flat))

\* the bytes save writes for a record: leader + directory + data
record_bytes(mfn, mfbwb, mfbwp, fields) ==
    LET flat == get_fields(fields)
        nvf  == Len(flat)
    IN  [mfn |-> mfn,
         mfrl |-> LEADER_SIZE + Len(flat) * DIR_SIZE + DataLength(flat),
         flag |-> 1,
         mfbwb |-> mfbwb, mfbwp |-> mfbwp,
         base |-> LEADER_SIZE + DIR_SIZE * nvf,
         nvf |-> nvf,
         status |-> ACTIVE,
         dir |-> dir_entries(flat, 0),
         raw |-> raw_data(flat)]

\* prepare_tagval_list slicing every value from the start of the data
prepare_tagval_list_from_start(stored) ==
    [i \in 1..Len(stored.dir) |->
        [tag |-> NatAnd(stored.dir[i].tag, 65535),
         data |-> SubSeq(stored.raw, 1, stored.dir[i].len)]]

\* MasterRecord.read, prepare_tagval_list: (tag & 0xffff, data slice) per entry
prepare_tagval_list(stored) ==
    [i \in 1..Len(stored.dir) |->
        [tag |-> NatAnd(stored.dir[i].tag, 65535),
         data |-> SubSeq(stored.raw, stored.dir[i].pos + 1,
                         stored.dir[i].pos + stored.dir[i].len)]]

\* MasterRecord.read, assemble_record: contiguous pairs of one tag make one
\* dict entry, a MasterField when alone and a MasterContainerField otherwise;
\* a key set again keeps its place in the dict and takes the new value
RECURSIVE assemble_record(_, _)
assemble_record(pairs, acc) ==
    IF pairs = <<>> THEN acc
    ELSE
      LET key == Head(pairs).tag
          run == CHOOSE n \in 1..Len(pairs) :
                    /\ \A i \in 1..n : pairs[i].tag = key
                    /\ (n < Len(pairs) => pairs[n + 1].tag # key)
          new_field == [tag |-> key, container |-> run # 1,
                        occs |-> [i \in 1..run |-> pairs[i].data]]
          acc1 == IF key \in get_tags(acc)
                  THEN [i \in 1..Len(acc) |->
                           IF acc[i].tag = key THEN new_field ELSE acc[i]]
                  ELSE Append(acc, new_field)
      IN  assemble_record(SubSeq(pairs, run + 1, Len(pairs)), acc1)

\* MasterRecord._read_leader asserts base != 0 and base == expected_base
leader_ok(stored) ==
    stored.base # 0 /\ stored.base = LEADER_SIZE + DIR_SIZE * stored.nvf

\* MasterRecord.read: the record decoded from the bytes stored at a position
read(stored) ==
    [mfn |-> stored.mfn, status |-> stored.status,
     mfbwb |-> stored.mfbwb, mfbwp |-> stored.mfbwp,
     fields |-> assemble_record(prepare_tagval_list(stored), <<>>)]

\* MasterRecord.__init__ without fields
EmptyRecord(mfn, status) ==
    [mfn |-> mfn, status |-> status, mfbwb |-> 0, mfbwp |-> 0, fields |-> <<>>]

\* MasterRecord.str2status
str2status(status) ==
    IF status = "active" THEN ACTIVE
    ELSE IF status = "logically deleted" THEN LOGICALLY_DELETED
    ELSE PHYSICALLY_DELETED

----------------------------------------------------------------------------
(* MasterFile (pyisis/files.py) *)

\* extra_large as set by MasterFile.__init__
ExtraLarge(type) == IF type > 1 THEN type ELSE 0

\* MasterFile._get_record_offset, after the xrf entry was fetched:
\* ok is false when the status is invalid (an exception is raised)
get_record_offset(xrf_rec, mfb, mfp) ==
    IF xrf_rec.status = "active"
    THEN [ok |-> TRUE, status |-> xrf_rec.status,
          pos |-> Shl(xrf_rec.block - 1, BLOCK_POWER) + xrf_rec.offset]
    ELSE IF xrf_rec.status = "logically deleted"
    THEN [ok |-> TRUE, status |-> xrf_rec.status,
          pos |-> Shl(Abs(xrf_rec.block) - 1, BLOCK_POWER) + xrf_rec.offset]
    ELSE IF xrf_rec.status \in {"inexistent", "physically deleted"}
    THEN [ok |-> TRUE, status |-> xrf_rec.status,
          pos |-> Shl(mfb - 1, BLOCK_POWER) + mfp]
    ELSE [ok |-> FALSE, status |-> xrf_rec.status, pos |-> 0]

\* the bytes [p, p + plen) and [q, q + qlen) have a byte in common
Overlap(p, plen, q, qlen) == p < q + qlen /\ q < p + plen

\* a patch of the leader that always writes LOGICALLY_DELETED
patch_status_deleted(file, pos, value) ==
    IF pos \in DOMAIN file
    THEN [file EXCEPT ![pos].status = LOGICALLY_DELETED]
    ELSE file

\* mst_fd.seek(pos + leader_offset_status); mst_fd.write(pack("H", value)):
\* the status of the record whose leader is at pos; when no record starts
\* at pos the two bytes land inside whatever record covers them
patch_status(file, pos, value) ==
    IF pos \in DOMAIN file
    THEN [file EXCEPT ![pos].status = value]
    ELSE [p \in {q \in DOMAIN file :
                    ~Overlap(q, file[q].mfrl, pos + LEADER_OFFSET_STATUS, 2)} |-> file[p]]

\* mst_fd.seek(pos); mst_fd.write(record)
write_record(file, pos, stored) ==
    [p \in {q \in DOMAIN file : ~Overlap(q, file[q].mfrl, pos, stored.mfrl)} \cup {pos} |->
        IF p = pos THEN stored ELSE file[p]]

\* what the result of a call looks like when it is not a record
NoRecord == EmptyRecord(0, 0)

\* a fetch that returns None for a physically deleted mfn
fetch_none_when_physically_deleted(file, mfn, xrf_rec, mfb, mfp) ==
    LET o == get_record_offset(xrf_rec, mfb, mfp)
    IN  IF ~o.ok THEN [kind |-> "error", rec |-> NoRecord]
        ELSE IF o.status \in {"active", "logically deleted"}
        THEN IF o.pos \in DOMAIN file /\ leader_ok(file[o.pos])
             THEN [kind |-> "record", rec |-> read(file[o.pos])]
             ELSE [kind |-> "error", rec |-> NoRecord]
        ELSE [kind |-> "none", rec |-> NoRecord]

\* MasterFile.__getitem__, fetch, after the xrf entry was fetched:
\* kind is "record", "none" or "error"
fetch(file, mfn, xrf_rec, mfb, mfp) ==
    LET o == get_record_offset(xrf_rec, mfb, mfp)
    IN  IF ~o.ok THEN [kind |-> "error", rec |-> NoRecord]
        ELSE IF o.status \in {"active", "logically deleted"}
        THEN IF o.pos \in DOMAIN file /\ leader_ok(file[o.pos])
             THEN [kind |-> "record", rec |-> read(file[o.pos])]
             ELSE [kind |-> "error", rec |-> NoRecord]
        ELSE IF o.status = "physically deleted"
        THEN [kind |-> "record", rec |-> EmptyRecord(mfn, str2status(o.status))]
        ELSE [kind |-> "none", rec |-> NoRecord]

\* MasterFile.previous
previous(file, record) ==
    IF record.mfbwb = 0 /\ record.mfbwp = 0
    THEN [kind |-> "none", rec |-> NoRecord]
    ELSE LET pos == (record.mfbwb - 1) * BLOCK_SIZE + record.mfbwp
         IN  IF pos \in DOMAIN file /\ leader_ok(file[pos])
             THEN [kind |-> "record", rec |-> read(file[pos])]
             ELSE [kind |-> "error", rec |-> NoRecord]

----------------------------------------------------------------------------
(* Inputs *)

\* a MasterField and a MasterContainerField as values of a record
F(tag, data) == [tag |-> tag, container |-> FALSE, occs |-> <<data>>]
C(tag, occs) == [tag |-> tag, container |-> TRUE, occs |-> occs]

\* the records handed to save: a repeatable field of two occurrences; a
\* repeatable field of one occurrence followed in the dict by a field of a
\* smaller tag
RecordInputs ==
    { <<C(10, <<"a", "bb">>)>>,
      <<C(70, <<"bb">>), F(10, "ccc")>> }

\* the mfn of a record handed to save (0: none)
SaveMfns == {0, 1, 2, 3}

\* the mfns asked for in the other calls
CallMfns == {1, 2, 3}

\* mftype of the database
MfTypes == {0, 2}

\* An existing database, as left by another writer: mfn 1 is an active
\* record at offset 64 with neither flag, mfn 2 decodes as invalid, mfn 3
\* decodes as physically deleted when the file is extra-large (no word does
\* in a standard file) and is inexistent otherwise.
ExistingRecord == record_bytes(1, 0, 0, <<F(10, "a")>>)

ExistingWords(extra_large) ==
    {<<1, CHOOSE w \in 1..4096 : XrfRecord(w, extra_large) =
                       [block |-> 1, offset |-> CTRL_SIZE, new_flag |-> FALSE,
                        modified_flag |-> FALSE, status |-> "active"]>>,
     <<2, 5>>}
    \cup {<<3, w>> : w \in {v \in {-Shr(XRF_BLOCK, extra_large)} :
                               XrfRecord(v, extra_large).status = "physically deleted"}}

----------------------------------------------------------------------------
(* State after MasterFile.__init__ *)

NoSnapshot == [status |-> "inexistent", pos |-> 0, nxtmfn |-> 0, tail |-> 0,
               given |-> 0, entry |-> XrfRecord(0, 0), word |-> 0,
               res |-> [kind |-> "none", rec |-> NoRecord]]

NoPend == [mfn |-> 0, pos |-> 0, newFlag |-> FALSE, modifiedFlag |-> FALSE,
           fields |-> <<>>, reset_flags |-> FALSE, own_pointer |-> FALSE,
           created |-> FALSE, chained |-> FALSE, pre |-> NoSnapshot]

\* created: the save stored a new record; chained: the call before this one
\* was, for an undelete, the delete of the same mfn and, for a save, the save
\* that created the record of the same mfn
NoOp == [op |-> "open", mfn |-> 0, ok |-> TRUE, pre |-> NoSnapshot,
         fields |-> <<>>, reset_flags |-> FALSE, own_pointer |-> FALSE,
         created |-> FALSE, chained |-> FALSE, pos |-> 0]

\* XrfCache.__init__ on a missing or empty .xrf file
NewXrfFile == add_empty_block([size |-> 0, words |-> <<>>])

\* the .xrf file with the words of a set of (mfn, word) pairs written
RECURSIVE WithWords(_, _)
WithWords(fd, pairs) ==
    IF pairs = {} THEN fd
    ELSE LET p == CHOOSE q \in pairs : TRUE
         IN  WithWords(PutWord(fd, XrfRecordOffset(p[1]).absolute_offset, p[2]),
                       pairs \ {p})

\* no Ref node was evaluated
NoRef == [dbase |-> <<>>, record_mfn |-> <<>>, ok |-> FALSE, fetched |-> FALSE,
          cached |-> FALSE, memo |-> {}, current |-> [kind |-> "none", rec |-> NoRecord],
          new_record |-> [kind |-> "none", rec |-> NoRecord]]

\* _ref_record_cache = {} of the module, before any ref
NoRefs ==
    /\ _ref_record_cache = <<>>
    /\ lastRef = NoRef

\* no tagfield attribute on the lexer
NoTagfield == [tag |-> -1, type |-> ""]

\* PftLexer(): the PLY lexer in its initial state, nothing lexed
NewLexer ==
    [lexstate |-> "INITIAL", lexstatestack |-> <<>>, literal_start |-> 0,
     tagfield |-> NoTagfield, lexdata |-> <<>>, lexpos |-> 0, tokens |-> <<>>,
     pc |-> "idle", error |-> "", ninputs |-> 0]

\* a new database (no .mst, no .xrf), or the existing one
MasterInit ==
    /\ mftype \in MfTypes
    /\ \/ /\ nxtmfn = 1
          /\ nxtmfp = CTRL_SIZE
          /\ xrfFd = NewXrfFile
          /\ mst = <<>>
       \/ /\ nxtmfn = 4
          /\ nxtmfp = CTRL_SIZE + ExistingRecord.mfrl
          /\ xrfFd = WithWords(NewXrfFile, ExistingWords(ExtraLarge(mftype)))
          /\ mst = [p \in {CTRL_SIZE} |-> ExistingRecord]
    /\ nxtmfb = 1
    /\ ctl = [nxtmfn |-> nxtmfn, nxtmfb |-> nxtmfb, nxtmfp |-> nxtmfp, mftype |-> mftype]
    /\ mstSize = BLOCK_SIZE
    /\ mstDirty = FALSE
    /\ xrfDirty = FALSE
    /\ xrf = <<>>
    /\ xrfLoaded = {}
    /\ pc = "idle"
    /\ pend = NoPend
    /\ lastOp = NoOp
    /\ nsaves = 0

\* the database, no session formatting
Init ==
    /\ MasterInit
    /\ _cache = <<>>
    /\ config = <<>>
    /\ frame = <<>>
    /\ NoRefs
    /\ lexer = NewLexer

XL == ExtraLarge(mftype)

\* what a caller sees of an mfn before a call: status, position, entry, slot, record
Snapshot(x, mfn, given) ==
    LET o == get_record_offset(x.entry, nxtmfb, nxtmfp)
    IN  [status |-> x.entry.status, pos |-> o.pos, nxtmfn |-> nxtmfn,
         tail |-> nxtmfb * BLOCK_SIZE + nxtmfp, given |-> given,
         entry |-> x.entry, word |-> WordAt(x.fd, XrfRecordOffset(mfn).absolute_offset),
         res |-> fetch(mst, mfn, x.entry, nxtmfb, nxtmfp)]

----------------------------------------------------------------------------
(* MasterFile.__getitem__: the call changes the xrf cache only; what it    *)
(* returns is Fetched(mfn)                                                 *)

Fetched(mfn) ==
    LET x == getitem(xrfFd, xrf, xrfLoaded, mfn, XL)
    IN  IF x.ok THEN fetch(mst, mfn, x.entry, nxtmfb, nxtmfp)
        ELSE [kind |-> "error", rec |-> NoRecord]

GetItem(mfn) ==
    /\ pc = "idle"
    /\ \E x \in {getitem(xrfFd, xrf, xrfLoaded, mfn, XL)} :
           /\ xrfFd' = x.fd
           /\ xrf' = x.xrf
           /\ xrfLoaded' = x.loaded
    /\ UNCHANGED formatter
    /\ UNCHANGED <<mftype, nxtmfn, nxtmfb, nxtmfp, ctl, mst, mstSize, mstDirty,
                   xrfDirty, pc, pend, lastOp, nsaves>>

----------------------------------------------------------------------------
(* MasterFile.delete and MasterFile.undelete *)

\* a call that raised: only the xrf cache may have changed
Raised(op, mfn, x) ==
    /\ xrfFd' = x.fd
    /\ xrf' = x.xrf
    /\ xrfLoaded' = x.loaded
    /\ lastOp' = [NoOp EXCEPT !.op = op, !.mfn = mfn, !.ok = FALSE,
                     !.pre = [NoSnapshot EXCEPT !.status = x.entry.status]]

\* a delete that does not look at the status of the mfn
Delete_any_status(mfn) ==
    /\ pc = "idle"
    /\ \E x \in {getitem(xrfFd, xrf, xrfLoaded, mfn, XL)} :
       \E o \in {get_record_offset(x.entry, nxtmfb, nxtmfp)} :
       \E xrf_rec \in {[x.entry EXCEPT !.status = "logically deleted"]} :
           /\ x.ok /\ o.ok
           /\ mst' = patch_status(mst, o.pos, LOGICALLY_DELETED)
           /\ mstDirty' = TRUE
           /\ xrf' = SetEntry(x.xrf, mfn, xrf_rec)
           /\ xrfFd' = write_entry(x.fd, mfn, xrf_rec, XL)
           /\ xrfLoaded' = x.loaded
           /\ xrfDirty' = flush_xrf(TRUE)
           /\ lastOp' = [NoOp EXCEPT !.op = "delete", !.mfn = mfn,
                            !.pre = Snapshot(x, mfn, mfn), !.pos = o.pos]
    /\ UNCHANGED formatter
    /\ UNCHANGED <<mftype, nxtmfn, nxtmfb, nxtmfp, ctl, mstSize, pc, pend, nsaves>>

Delete(mfn) ==
    /\ pc = "idle"
    /\ \E x \in {getitem(xrfFd, xrf, xrfLoaded, mfn, XL)} :
       \E o \in {get_record_offset(x.entry, nxtmfb, nxtmfp)} :
       \E xrf_rec \in {[x.entry EXCEPT !.status = "logically deleted"]} :
           IF x.ok /\ o.ok /\ o.status = "active"
           THEN /\ mst' = patch_status(mst, o.pos, LOGICALLY_DELETED)
                /\ mstDirty' = TRUE
                /\ xrf' = SetEntry(x.xrf, mfn, xrf_rec)
                /\ xrfFd' = write_entry(x.fd, mfn, xrf_rec, XL)
                /\ xrfLoaded' = x.loaded
                /\ xrfDirty' = flush_xrf(TRUE)
                /\ lastOp' = [NoOp EXCEPT !.op = "delete", !.mfn = mfn,
                                 !.pre = Snapshot(x, mfn, mfn), !.pos = o.pos]
           ELSE /\ Raised("delete", mfn, x)
                /\ UNCHANGED <<mst, mstDirty, xrfDirty>>
    /\ UNCHANGED formatter
    /\ UNCHANGED <<mftype, nxtmfn, nxtmfb, nxtmfp, ctl, mstSize, pc, pend, nsaves>>

Undelete(mfn) ==
    /\ pc = "idle"
    /\ \E x \in {getitem(xrfFd, xrf, xrfLoaded, mfn, XL)} :
       \E o \in {get_record_offset(x.entry, nxtmfb, nxtmfp)} :
       \E xrf_rec \in {[x.entry EXCEPT !.status = "active"]} :
       \E chained \in {lastOp.op = "delete" /\ lastOp.ok /\ lastOp.mfn = mfn} :
           IF x.ok /\ o.ok /\ o.status = "logically deleted"
           THEN /\ mst' = patch_status(mst, o.pos, ACTIVE)
                /\ mstDirty' = TRUE
                /\ xrf' = SetEntry(x.xrf, mfn, xrf_rec)
                /\ xrfFd' = write_entry(x.fd, mfn, xrf_rec, XL)
                /\ xrfLoaded' = x.loaded
                /\ xrfDirty' = flush_xrf(TRUE)
                \* chained: the call undoes the delete that was the call before it
                /\ lastOp' = [NoOp EXCEPT !.op = "undelete", !.mfn = mfn,
                                 !.pre = IF chained THEN lastOp.pre
                                         ELSE Snapshot(x, mfn, mfn),
                                 !.chained = chained, !.pos = o.pos]
           ELSE /\ Raised("undelete", mfn, x)
                /\ UNCHANGED <<mst, mstDirty, xrfDirty>>
    /\ UNCHANGED formatter
    /\ UNCHANGED <<mftype, nxtmfn, nxtmfb, nxtmfp, ctl, mstSize, pc, pend, nsaves>>

----------------------------------------------------------------------------
(* MasterRecord.save (MasterFile.add calls it with reset_flags False) *)

\* save deciding without looking at the new_flag of the xrf entry
save_plan_ignoring_new_flag(status, pos, xrfstat, reset_flags, mfbwb, mfbwp, mfb, mfp) ==
    IF status \in {"inexistent", "physically deleted"}
    THEN [newFlag |-> TRUE, modifiedFlag |-> FALSE, mfbwb |-> 0, mfbwp |-> 0,
          grow |-> 1, patch |-> FALSE, pos |-> pos]
    ELSE IF reset_flags
    THEN [newFlag |-> FALSE, modifiedFlag |-> FALSE, mfbwb |-> 0, mfbwp |-> 0,
          grow |-> 0, patch |-> status = "active", pos |-> pos]
    ELSE [newFlag |-> FALSE, modifiedFlag |-> TRUE,
          mfbwb |-> IF mfbwb = 0 THEN (pos \div BLOCK_SIZE) + 1 ELSE mfbwb,
          mfbwp |-> IF mfbwb = 0 THEN pos % BLOCK_SIZE ELSE mfbwp,
          grow |-> 0, patch |-> status = "active", pos |-> mfb * BLOCK_SIZE + mfp]

\* the flags and the backward pointer save decides on, and whether the old
\* leader is flagged: [newFlag, modifiedFlag, mfbwb, mfbwp, grow, patch, pos]
save_plan(status, pos, xrfstat, reset_flags, mfbwb, mfbwp, mfb, mfp) ==
    IF status \in {"inexistent", "physically deleted"}
    THEN [newFlag |-> TRUE, modifiedFlag |-> FALSE, mfbwb |-> 0, mfbwp |-> 0,
          grow |-> 1, patch |-> FALSE, pos |-> pos]
    ELSE
      LET at == IF reset_flags THEN pos ELSE mfb * BLOCK_SIZE + mfp
      IN  IF reset_flags
          THEN [newFlag |-> FALSE, modifiedFlag |-> FALSE, mfbwb |-> 0, mfbwp |-> 0,
                grow |-> 0, patch |-> status = "active", pos |-> at]
          ELSE IF xrfstat.new_flag
          THEN [newFlag |-> TRUE, modifiedFlag |-> FALSE, mfbwb |-> 0, mfbwp |-> 0,
                grow |-> 0, patch |-> status = "active", pos |-> at]
          ELSE [newFlag |-> FALSE, modifiedFlag |-> TRUE,
                mfbwb |-> IF mfbwb = 0 THEN (pos \div BLOCK_SIZE) + 1 ELSE mfbwb,
                mfbwp |-> IF mfbwb = 0 THEN pos % BLOCK_SIZE ELSE mfbwp,
                grow |-> 0, patch |-> status = "active", pos |-> at]

\* see MSNVSPLT in cisis.h: DIR_MASK is "<HHH", never "iii"
end_block == 497

\* the position moved to the next block when it is too close to the end of its block
split_pos(pos) ==
    LET test_pos == pos % BLOCK_SIZE
    IN  IF test_pos >= end_block /\ test_pos <= 511
        THEN BLOCK_SIZE * ((pos \div BLOCK_SIZE) + 1)
        ELSE pos

\* the size of the file after the zero block (when one is written) and the record
size_after(actual_mst_size, pos, length) ==
    Max(IF length + pos >= actual_mst_size THEN actual_mst_size + BLOCK_SIZE
        ELSE actual_mst_size,
        pos + length)

\* a save that leaves the record and the control header in the buffer of mst_fd
flush_mst_skipped(dirty) == dirty

\* mst_fd.flush() at the end of the master-file part of save
flush_mst(dirty) == FALSE

\* save up to mst_fd.flush(): the record and the control header are written.
\* own_pointer: the record object was read from the file and carries the
\* backward pointer stored there; otherwise it was built by the caller (0, 0)
SaveRecord(fields, given, reset_flags, own_pointer) ==
    /\ pc = "idle"
    /\ nsaves < MaxSaves
    /\ nsaves' = nsaves + 1
    /\ \E mfn \in {IF given = 0 THEN nxtmfn ELSE given} :
       \E x \in {getitem(xrfFd, xrf, xrfLoaded, mfn, XL)} :
       \E o \in {get_record_offset(x.entry, nxtmfb, nxtmfp)} :
       \E old \in {fetch(mst, mfn, x.entry, nxtmfb, nxtmfp).rec} :
       \E plan \in {save_plan(o.status, o.pos, x.entry, reset_flags,
                              IF own_pointer THEN old.mfbwb ELSE 0,
                              IF own_pointer THEN old.mfbwp ELSE 0,
                              nxtmfb, nxtmfp)} :
       \E record \in {record_bytes(mfn, plan.mfbwb, plan.mfbwp, fields)} :
       \E pos \in {split_pos(plan.pos)} :
       \E tell \in {pos + record.mfrl} :
           /\ own_pointer => old.mfbwb # 0
           /\ IF x.ok /\ o.ok
              THEN /\ xrfFd' = x.fd
                   /\ xrf' = x.xrf
                   /\ xrfLoaded' = x.loaded
                   /\ nxtmfn' = nxtmfn + plan.grow
                   /\ mst' = write_record(
                                IF plan.patch
                                THEN patch_status(mst, o.pos, LOGICALLY_DELETED)
                                ELSE mst,
                                pos, record)
                   /\ mstSize' = size_after(mstSize, pos, record.mfrl)
                   /\ nxtmfb' = (tell \div BLOCK_SIZE) + 1
                   /\ nxtmfp' = IF tell % BLOCK_SIZE = 0 THEN 1 ELSE tell % BLOCK_SIZE
                   /\ ctl' = [nxtmfn |-> nxtmfn', nxtmfb |-> nxtmfb',
                              nxtmfp |-> nxtmfp', mftype |-> mftype]
                   /\ mstDirty' = flush_mst(TRUE)
                   /\ pc' = "save_xrf"
                   /\ pend' = [mfn |-> mfn, pos |-> pos, newFlag |-> plan.newFlag,
                               modifiedFlag |-> plan.modifiedFlag, fields |-> fields,
                               reset_flags |-> reset_flags, own_pointer |-> own_pointer,
                               created |-> plan.grow = 1,
                               chained |-> /\ lastOp.op = "save" /\ lastOp.ok
                                           /\ lastOp.mfn = mfn /\ lastOp.created,
                               pre |-> Snapshot(x, mfn, given)]
                   /\ UNCHANGED lastOp
              ELSE /\ Raised("save", mfn, x)
                   /\ UNCHANGED <<nxtmfn, nxtmfb, nxtmfp, ctl, mst, mstSize, mstDirty,
                                  pc, pend>>
    /\ UNCHANGED formatter
    /\ UNCHANGED <<mftype, xrfDirty>>

\* save from "update current xrf record" on: the entry is updated and written
SaveXrf ==
    /\ pc = "save_xrf"
    /\ \E x \in {getitem(xrfFd, xrf, xrfLoaded, pend.mfn, XL)} :
       \E xrf_rec \in {update(x.entry, pend.pos, pend.newFlag, pend.modifiedFlag)} :
           /\ xrf' = SetEntry(x.xrf, pend.mfn, xrf_rec)
           /\ xrfFd' = write_entry(x.fd, pend.mfn, xrf_rec, XL)
           /\ xrfLoaded' = x.loaded
    /\ xrfDirty' = flush_xrf(TRUE)
    /\ pc' = "idle"
    /\ pend' = NoPend
    /\ lastOp' = [NoOp EXCEPT !.op = "save", !.mfn = pend.mfn, !.fields = pend.fields,
                     !.reset_flags = pend.reset_flags, !.own_pointer = pend.own_pointer,
                     !.created = pend.created, !.chained = pend.chained,
                     !.pre = pend.pre, !.pos = pend.pos]
    /\ UNCHANGED formatter
    /\ UNCHANGED <<mftype, nxtmfn, nxtmfb, nxtmfp, ctl, mst, mstSize, mstDirty, nsaves>>

\* MasterFile.commit
Commit ==
    /\ pc = "idle"
    /\ mstDirty
    /\ mstDirty' = FALSE
    /\ UNCHANGED formatter
    /\ UNCHANGED <<mftype, nxtmfn, nxtmfb, nxtmfp, ctl, mst, mstSize, xrfFd, xrfDirty,
                   xrf, xrfLoaded, pc, pend, lastOp, nsaves>>

\* MasterFile.__iter__: imap(self.__getitem__, xrange(1, self.nxtmfn)), the
\* items in the order of the mfns
master_iter == [mfn \in 1..(nxtmfn - 1) |-> Fetched(mfn)]

\* the items the iteration yields before __getitem__ raises (all when none does)
yielded ==
    LET items == master_iter
        raising == {i \in 1..Len(items) : items[i].kind = "error"}
    IN  IF raising = {} THEN items
        ELSE SubSeq(items, 1, (CHOOSE i \in raising : \A j \in raising : i <= j) - 1)

\* MasterFile.__len__: sum((1 for i in self if not i.status)); ok is false
\* when __getitem__ raises or an item is None (None has no attribute status)
master_len ==
    LET items == yielded
    IN  IF Len(items) < nxtmfn - 1 \/ \E i \in 1..Len(items) : items[i].kind = "none"
        THEN [ok |-> FALSE, size |-> 0]
        ELSE [ok |-> TRUE,
              size |-> Cardinality({i \in 1..Len(items) : items[i].rec.status = 0})]

\* the xrf cache and file after __getitem__ was called for first..last, up
\* to the call that raises
RECURSIVE iter_cache(_, _, _)
iter_cache(x, first, last) ==
    IF first > last \/ ~x.ok \/ x.entry.status = "invalid" THEN x
    ELSE iter_cache(getitem(x.fd, x.xrf, x.loaded, first, XL), first + 1, last)

\* len(master_file): the iteration wakes up the blocks of the mfns it passes
MasterLen ==
    /\ pc = "idle"
    /\ nxtmfn > 1
    /\ \E x \in {iter_cache([fd |-> xrfFd, xrf |-> xrf, loaded |-> xrfLoaded,
                             ok |-> TRUE, entry |-> XrfRecord(0, XL)],
                            1, nxtmfn - 1)} :
           /\ xrfFd' = x.fd
           /\ xrf' = x.xrf
           /\ xrfLoaded' = x.loaded
    /\ UNCHANGED formatter
    /\ UNCHANGED <<mftype, nxtmfn, nxtmfb, nxtmfp, ctl, mst, mstSize, mstDirty,
                   xrfDirty, pc, pend, lastOp, nsaves>>

Next ==
    \/ \E fields \in RecordInputs, given \in SaveMfns, reset_flags \in BOOLEAN,
          own_pointer \in BOOLEAN :
          SaveRecord(fields, given, reset_flags, own_pointer)
    \/ SaveXrf
    \/ \E mfn \in CallMfns : GetItem(mfn)
    \/ \E mfn \in CallMfns : Delete(mfn)
    \/ \E mfn \in CallMfns : Undelete(mfn)
    \/ Commit
    \/ MasterLen

Spec == Init /\ [][Next]_vars

----------------------------------------------------------------------------
(* Properties *)

\* the xrf entry a call on this handle gets for an mfn
Entry(mfn) == getitem(xrfFd, xrf, xrfLoaded, mfn, XL).entry

\* the word in the slot of an mfn on the .xrf file
SlotWord(mfn) == WordAt(xrfFd, XrfRecordOffset(mfn).absolute_offset)

\* a save has returned and no call that changes the database came after it
Saved == pc = "idle" /\ lastOp.op = "save" /\ lastOp.ok

\* two records agree on the set of tags, on the data of every tag and on the
\* occurrences of every tag, in their order
SameContent(a, b) ==
    /\ get_tags(a) = get_tags(b)
    /\ \A t \in get_tags(b) :
          /\ Join(OccsOf(a, t)) = Join(OccsOf(b, t))
          /\ OccsOf(a, t) = OccsOf(b, t)

\* C1: after save(R), MasterFile[R.mfn] on the same handle returns a record
\* with the tags of R, the data of R for every tag, and the occurrences of
\* every repeatable tag in the order of R.
C1_SaveReadRoundTrip ==
    Saved =>
        LET r == Fetched(lastOp.mfn)
        IN  /\ r.kind = "record"
            /\ r.rec.mfn = lastOp.mfn
            /\ SameContent(r.rec.fields, lastOp.fields)

\* a repeatable field of two occurrences was saved and read back as a container
C1_Witness ==
    /\ Saved
    /\ lastOp.fields = <<C(10, <<"a", "bb">>)>>
    /\ Fetched(lastOp.mfn).kind = "record"
    /\ Fetched(lastOp.mfn).rec.fields[1].container
    /\ Len(Fetched(lastOp.mfn).rec.fields[1].occs) = 2

\* the save that returned updated, with reset_flags false, the record that
\* the call before it had created
UpdatedAfterCreate == Saved /\ lastOp.chained /\ ~lastOp.reset_flags

\* the backward pointer to a position of the master file
PointerTo(pos) == <<(pos \div BLOCK_SIZE) + 1, pos % BLOCK_SIZE>>

\* the backward pointer of the record stored by the save that returned
StoredPointer == <<mst[lastOp.pos].mfbwb, mst[lastOp.pos].mfbwp>>

\* C2 (as stated): after save(R) creates a record and save(R') with
\* reset_flags false updates it, R' carries the pointer to the position of R
\* and previous(R') returns a record equal to R.
C2_BackPointerAfterCreate ==
    UpdatedAfterCreate =>
        /\ StoredPointer = PointerTo(lastOp.pre.pos)
        /\ previous(mst, Fetched(lastOp.mfn).rec).kind = "record"
        /\ SameContent(previous(mst, Fetched(lastOp.mfn).rec).rec.fields,
                       lastOp.pre.res.rec.fields)

\* C2 (amended): the xrf entry of a record that was just created carries
\* new_flag, so the save that updates it stores the pointer (0, 0), keeps
\* new_flag, and previous(R') returns None; a save with reset_flags false of
\* a record built by the caller stores a pointer other than (0, 0) only when
\* the entry carried no new_flag, and then it is the pointer to the position
\* the entry had before the save.
C2_BackPointerNeedsNoNewFlag ==
    /\ UpdatedAfterCreate =>
          /\ lastOp.pre.entry.new_flag
          /\ StoredPointer = <<0, 0>>
          /\ Entry(lastOp.mfn).new_flag
          /\ previous(mst, Fetched(lastOp.mfn).rec).kind = "none"
    /\ (Saved /\ ~lastOp.reset_flags /\ ~lastOp.own_pointer /\ ~lastOp.created) =>
          IF lastOp.pre.entry.new_flag
          THEN StoredPointer = <<0, 0>>
          ELSE /\ StoredPointer = PointerTo(lastOp.pre.pos)
               /\ Entry(lastOp.mfn).modified_flag

\* a record was created and then updated with reset_flags false
C2_Witness ==
    /\ UpdatedAfterCreate
    /\ lastOp.pre.status = "active"
    /\ lastOp.pre.res.kind = "record"
    /\ lastOp.pos # lastOp.pre.pos
    /\ StoredPointer = <<0, 0>>

\* an undelete has returned that undid the delete called just before it
Restored == pc = "idle" /\ lastOp.op = "undelete" /\ lastOp.ok /\ lastOp.chained

\* C3: delete(mfn) then undelete(mfn) of an active mfn leaves the xrf status
\* and the leader status active, the xrf position and flags as before the
\* delete, and MasterFile[mfn] returns the fields and data it returned before.
C3_DeleteUndeleteRestores ==
    Restored =>
        LET e == Entry(lastOp.mfn)
            before == lastOp.pre
            r == Fetched(lastOp.mfn)
        IN  /\ before.status = "active"
            /\ e.status = "active"
            /\ e.block = before.entry.block
            /\ e.offset = before.entry.offset
            /\ e.new_flag = before.entry.new_flag
            /\ e.modified_flag = before.entry.modified_flag
            /\ lastOp.pos = before.pos
            /\ (lastOp.pos \in DOMAIN mst => mst[lastOp.pos].status = ACTIVE)
            /\ r.kind = before.res.kind
            /\ r.rec.mfn = before.res.rec.mfn
            /\ r.rec.fields = before.res.rec.fields
            /\ r.rec.status = ACTIVE

\* a record that save created was deleted and undeleted, and is read again
C3_Witness ==
    /\ Restored
    /\ lastOp.pre.entry.new_flag
    /\ Fetched(lastOp.mfn).kind = "record"
    /\ Fetched(lastOp.mfn).rec.fields # <<>>

\* C4: inside save the slot of the mfn is written only after the record and
\* the control header are on the master file and flushed; when save has
\* returned the .xrf file is flushed, the slot holds the word of the entry,
\* and MasterFile[mfn] on the same handle observes the record just stored.
C4_SaveOrdering ==
    /\ pc = "save_xrf" =>
          /\ ~mstDirty
          /\ pend.pos \in DOMAIN mst
          /\ mst[pend.pos].mfn = pend.mfn
          /\ mst[pend.pos].status = ACTIVE
          /\ SameContent(read(mst[pend.pos]).fields, pend.fields)
          /\ ctl = [nxtmfn |-> nxtmfn, nxtmfb |-> nxtmfb, nxtmfp |-> nxtmfp,
                    mftype |-> mftype]
          /\ SlotWord(pend.mfn) = pend.pre.word
    /\ Saved =>
          /\ ~mstDirty
          /\ ~xrfDirty
          /\ SlotWord(lastOp.mfn) = WrittenWord(Entry(lastOp.mfn), XL)
          /\ get_record_offset(Entry(lastOp.mfn), nxtmfb, nxtmfp).pos = lastOp.pos
          /\ lastOp.pos \in DOMAIN mst
          /\ Fetched(lastOp.mfn) = [kind |-> "record", rec |-> read(mst[lastOp.pos])]

\* save is between the flush of the master file and the write of the slot,
\* for an update whose record went to a position other than the old one
C4_Witness ==
    /\ pc = "save_xrf"
    /\ pend.pre.status = "active"
    /\ pend.pos # pend.pre.pos
    /\ pend.pos \in DOMAIN mst
    /\ SlotWord(pend.mfn) = pend.pre.word

\* the status a call requires of the mfn
Required(op) == IF op = "delete" THEN "active" ELSE "logically deleted"

\* C5: delete succeeds only on an active mfn and undelete only on a logically
\* deleted one; for every other status the call raises and changes neither
\* the master file nor the xrf entry or slot of any record.
C5_StatusGuard ==
    [][ (lastOp' # lastOp /\ lastOp'.op \in {"delete", "undelete"}) =>
           /\ lastOp'.ok <=> (Entry(lastOp'.mfn).status = Required(lastOp'.op))
           /\ ~lastOp'.ok =>
                 /\ mst' = mst
                 /\ mstSize' = mstSize
                 /\ xrfFd'.words = xrfFd.words
                 /\ \A m \in DOMAIN xrf : xrf'[m] = xrf[m]
                 /\ \A m \in CallMfns : Entry(m)' = Entry(m) ]_vars

\* delete was called on a logically deleted mfn and raised
C5_Witness ==
    /\ pc = "idle"
    /\ lastOp.op = "delete"
    /\ ~lastOp.ok
    /\ lastOp.pre.status = "logically deleted"
    /\ Entry(lastOp.mfn).status = "logically deleted"

C7_FreshMfn ==
    (Saved /\ lastOp.pre.given = 0) =>
        /\ lastOp.mfn = lastOp.pre.nxtmfn
        /\ lastOp.pre.status = "inexistent"
        /\ lastOp.pre.res.kind = "none"
        /\ lastOp.created
        /\ Entry(lastOp.mfn).new_flag
        /\ StoredPointer = <<0, 0>>
        /\ nxtmfn = lastOp.pre.nxtmfn + 1

\* C8: for an mfn in [1, nxtmfn) whose record was just created, updated,
\* logically deleted or undeleted, decoding the word of its slot and encoding
\* the entry again yields the word.
C8_DecodeEncodeRoundTrip ==
    (/\ pc = "idle"
     /\ lastOp.op \in {"save", "delete", "undelete"}
     /\ lastOp.ok
     /\ lastOp.mfn \in 1..(nxtmfn - 1)) =>
        WrittenWord(XrfRecord(SlotWord(lastOp.mfn), XL), XL) = SlotWord(lastOp.mfn)

\* C9: after an entry was put as logically deleted, the word of its slot is
\* the negation of the encoding of the entry, and decoding the word yields
\* status logically deleted, the negated block and the same offset.
C9_DeletedWordDecodes ==
    (pc = "idle" /\ lastOp.op = "delete" /\ lastOp.ok) =>
        LET e == Entry(lastOp.mfn)
            d == XrfRecord(SlotWord(lastOp.mfn), XL)
        IN  /\ e.status = "logically deleted"
            /\ SlotWord(lastOp.mfn) = -encode(e, XL)
            /\ d.status = "logically deleted"
            /\ d.block = -e.block
            /\ d.offset = e.offset

----------------------------------------------------------------------------
(* The cross-reference file alone: entries of mfns of blocks 1..MaxXrfBlocks *)
(* are fetched and put on a new database, so that the .xrf file grows.      *)

\* the first mfn of every block, and the last mfn of block 1
XrfMfns == {POINTER_PER_BLOCK * (b - 1) + 1 : b \in 1..MaxXrfBlocks} \cup {POINTER_PER_BLOCK}

XrfInit ==
    /\ Init
    /\ nxtmfn = 1

\* MasterRecord.save, "update current xrf record", for a new record stored at
\* the start of the master file: mst.xrf[mfn], update, _write
XrfPut(mfn) ==
    /\ \E x \in {getitem(xrfFd, xrf, xrfLoaded, mfn, XL)} :
       \E xrf_rec \in {update(x.entry, CTRL_SIZE, TRUE, FALSE)} :
           IF x.ok
           THEN /\ xrf' = SetEntry(x.xrf, mfn, xrf_rec)
                /\ xrfFd' = write_entry(x.fd, mfn, xrf_rec, XL)
                /\ xrfLoaded' = x.loaded
                /\ xrfDirty' = flush_xrf(TRUE)
           ELSE /\ xrfFd' = x.fd
                /\ xrf' = x.xrf
                /\ xrfLoaded' = x.loaded
                /\ UNCHANGED xrfDirty
    /\ UNCHANGED formatter
    /\ UNCHANGED <<mftype, nxtmfn, nxtmfb, nxtmfp, ctl, mst, mstSize, mstDirty,
                   pc, pend, lastOp, nsaves>>

\* MasterFile.delete, "Adjust xrf file", for an active entry: mst.xrf[mfn],
\* status set to logically deleted, _write
XrfPutDeleted(mfn) ==
    /\ \E x \in {getitem(xrfFd, xrf, xrfLoaded, mfn, XL)} :
       \E xrf_rec \in {[x.entry EXCEPT !.status = "logically deleted"]} :
           /\ x.ok
           /\ x.entry.status = "active"
           /\ xrf' = SetEntry(x.xrf, mfn, xrf_rec)
           /\ xrfFd' = write_entry(x.fd, mfn, xrf_rec, XL)
           /\ xrfLoaded' = x.loaded
           /\ xrfDirty' = flush_xrf(TRUE)
    /\ UNCHANGED formatter
    /\ UNCHANGED <<mftype, nxtmfn, nxtmfb, nxtmfp, ctl, mst, mstSize, mstDirty,
                   pc, pend, lastOp, nsaves>>

XrfNext ==
    \/ \E mfn \in XrfMfns : GetItem(mfn)
    \/ \E mfn \in XrfMfns : XrfPut(mfn)
    \/ \E mfn \in XrfMfns : XrfPutDeleted(mfn)

XrfSpec == XrfInit /\ [][XrfNext]_vars

\* the number of blocks of the .xrf file and the header slot of a block
NumBlocks(fd) == fd.size \div BLOCK_SIZE
Header(fd, b) == WordAt(fd, (b - 1) * BLOCK_SIZE)

\* C10: the header of block b is -b when b is the last block and +b otherwise
\* (negative iff last); a step that appends blocks leaves every entry slot
\* and the header of every block before the previously last one unchanged.
C10_BlockHeaders ==
    /\ [](\A b \in 1..NumBlocks(xrfFd) :
             Header(xrfFd, b) = IF b = NumBlocks(xrfFd) THEN -b ELSE b)
    /\ [][ NumBlocks(xrfFd') > NumBlocks(xrfFd) =>
              /\ \A off \in DOMAIN xrfFd.words :
                    off % BLOCK_SIZE # 0 => WordAt(xrfFd', off) = xrfFd.words[off]
              /\ \A b \in 1..(NumBlocks(xrfFd) - 1) :
                    Header(xrfFd', b) = Header(xrfFd, b)
              /\ Header(xrfFd, NumBlocks(xrfFd)) = -NumBlocks(xrfFd)
              /\ Header(xrfFd', NumBlocks(xrfFd)) = NumBlocks(xrfFd)
              /\ Header(xrfFd', NumBlocks(xrfFd')) = -NumBlocks(xrfFd') ]_vars

\* the file grew to three blocks or more after entries were put in block 1
C10_Witness ==
    /\ NumBlocks(xrfFd) >= 3
    /\ SlotWord(1) # 0
    /\ SlotWord(POINTER_PER_BLOCK) < 0
    /\ Header(xrfFd, 1) = 1
    /\ Header(xrfFd, NumBlocks(xrfFd)) < 0

\* C11: XrfCache[mfn] for an mfn whose slot lies beyond the end of the .xrf
\* file raises no error and returns an inexistent entry (block 0, offset 0,
\* no flags), however many blocks beyond the end the mfn lies.
C11_BeyondEndIsInexistent ==
    \A mfn \in XrfMfns :
        ~BlockOnFile(xrfFd, XrfRecordOffset(mfn).block_idx) =>
            LET x == getitem(xrfFd, xrf, xrfLoaded, mfn, XL)
            IN  /\ x.ok
                /\ x.entry = [block |-> 0, offset |-> 0, new_flag |-> FALSE,
                              modified_flag |-> FALSE, status |-> "inexistent"]

\* the mfns below nxtmfn whose record MasterFile[mfn] returns with status active
ActiveMfns ==
    {mfn \in 1..(nxtmfn - 1) :
        Fetched(mfn).kind = "record" /\ Fetched(mfn).rec.status = ACTIVE}

\* C12: iterating a master file yields one item per mfn from 1 to nxtmfn - 1
\* in increasing order (None for inexistent slots), and len(master_file) is
\* the number of those mfns whose record is active, in every state in which
\* no slot below nxtmfn is invalid.
C12_IterAndLen ==
    (pc = "idle" /\ \A mfn \in 1..(nxtmfn - 1) : Entry(mfn).status # "invalid") =>
        /\ Len(yielded) = nxtmfn - 1
        /\ \A mfn \in 1..(nxtmfn - 1) : yielded[mfn] = Fetched(mfn)
        /\ master_len.ok
        /\ master_len.size = Cardinality(ActiveMfns)

----------------------------------------------------------------------------
----------------------------------------------------------------------------
(* C24: nxtmfn and the MFNs in use *)

\* C24: every MFN whose XRF status is active or logically deleted is smaller
\* than nxtmfn, also after a save of a record whose MFN the caller chose
C24_StoredMfnsBelowNxtmfn ==
    pc = "idle" =>
        \A mfn \in CallMfns :
            Entry(mfn).status \in {"active", "logically deleted"} => mfn < nxtmfn

----------------------------------------------------------------------------
(* C25: the tail of the master file *)

\* the place the control values nxtmfb (1-based) and nxtmfp designate
MstTail == (nxtmfb - 1) * BLOCK_SIZE + nxtmfp

\* the current version of an mfn is on the file, whole, where its xrf entry points
CurrentVersionIntact(mfn) ==
    LET o == get_record_offset(Entry(mfn), nxtmfb, nxtmfp)
    IN  /\ o.pos \in DOMAIN mst
        /\ mst[o.pos].mfn = mfn
        /\ o.pos >= CTRL_SIZE
        /\ o.pos + mst[o.pos].mfrl <= MstTail

\* C25: the tail (nxtmfb, nxtmfp) is never before the end of a record written
\* earlier nor inside the control header, so that no save overwrites the
\* current version of another MFN, also after save(reset_flags=True)
C25_TailBeyondRecords ==
    pc = "idle" =>
        /\ MstTail >= CTRL_SIZE
        /\ \A p \in DOMAIN mst : p + mst[p].mfrl <= MstTail
        /\ \A mfn \in CallMfns :
              Entry(mfn).status \in {"active", "logically deleted"} =>
                  CurrentVersionIntact(mfn)

----------------------------------------------------------------------------
(* C27: save(reset_flags=True) *)

\* C27: a save with reset_flags True of a stored record clears the new and
\* modified flags and the backward pointer and changes nothing else: the
\* status (a logically deleted record stays so), the position of the record,
\* nxtmfn, nxtmfb and nxtmfp are what they were before the call
C27_ResetFlagsOnly ==
    (Saved /\ lastOp.reset_flags
       /\ lastOp.pre.status \in {"active", "logically deleted"}) =>
        /\ ~Entry(lastOp.mfn).new_flag
        /\ ~Entry(lastOp.mfn).modified_flag
        /\ mst[lastOp.pos].mfbwb = 0 /\ mst[lastOp.pos].mfbwp = 0
        /\ Entry(lastOp.mfn).status = lastOp.pre.status
        /\ mst[lastOp.pos].status = str2status(lastOp.pre.status)
        /\ lastOp.pos = lastOp.pre.pos
        /\ nxtmfn = lastOp.pre.nxtmfn
        /\ nxtmfb * BLOCK_SIZE + nxtmfp = lastOp.pre.tail

----------------------------------------------------------------------------
(* C28: the chain of versions MasterFile.previous follows *)

\* the position a backward pointer designates
PointedAt(record) == (record.mfbwb - 1) * BLOCK_SIZE + record.mfbwp

\* the record at p carries a backward pointer
HasPointer(p) == mst[p].mfbwb # 0 \/ mst[p].mfbwp # 0

\* C28: every backward pointer that is not (0, 0) designates a position
\* before the record that carries it, where previous() finds a version of the
\* same MFN, so that following previous() ends with None
C28_PreviousTerminates ==
    \A p \in DOMAIN mst :
        HasPointer(p) =>
            /\ PointedAt(mst[p]) < p
            /\ previous(mst, mst[p]).kind = "record"
            /\ previous(mst, mst[p]).rec.mfn = mst[p].mfn

\* The existing database after a session that created MFN 3 and updated
\* MFN 1 with the first record of RecordInputs (save, reset_flags False):
\* the old version of MFN 1 at 64 is flagged logically deleted, MFN 3 is at
\* 91 with new_flag, the new version of MFN 1 is at 638 with the backward
\* pointer (1, 64), and the tail is (2, 161)
VersionsFields == CHOOSE r \in RecordInputs : Len(r) = 1

VersionsMst ==
    write_record(
        write_record(patch_status([p \in {CTRL_SIZE} |-> ExistingRecord],
                                  CTRL_SIZE, LOGICALLY_DELETED),
                     CTRL_SIZE + ExistingRecord.mfrl,
                     record_bytes(3, 0, 0, VersionsFields)),
        BLOCK_SIZE + CTRL_SIZE + ExistingRecord.mfrl
            + record_bytes(3, 0, 0, VersionsFields).mfrl,
        record_bytes(1, 1, CTRL_SIZE, VersionsFields))

VersionsXrf ==
    write_entry(
        write_entry(WithWords(NewXrfFile, ExistingWords(0)), 3,
                    update(XrfRecord(0, 0), CTRL_SIZE + ExistingRecord.mfrl, TRUE, FALSE), 0),
        1,
        update(XrfRecord(0, 0),
               BLOCK_SIZE + CTRL_SIZE + ExistingRecord.mfrl
                   + record_bytes(3, 0, 0, VersionsFields).mfrl,
               FALSE, TRUE),
        0)

\* the handle MasterFile.__init__ gives on that database
VersionsInit ==
    /\ mftype = 0
    /\ nxtmfn = 5
    /\ nxtmfb = 2
    /\ nxtmfp = CTRL_SIZE + ExistingRecord.mfrl
                  + 2 * record_bytes(3, 0, 0, VersionsFields).mfrl
    /\ ctl = [nxtmfn |-> nxtmfn, nxtmfb |-> nxtmfb, nxtmfp |-> nxtmfp, mftype |-> mftype]
    /\ mst = VersionsMst
    /\ mstSize = 2 * BLOCK_SIZE
    /\ xrfFd = VersionsXrf
    /\ mstDirty = FALSE
    /\ xrfDirty = FALSE
    /\ xrf = <<>>
    /\ xrfLoaded = {}
    /\ pc = "idle"
    /\ pend = NoPend
    /\ lastOp = NoOp
    /\ nsaves = 0
    /\ _cache = <<>>
    /\ config = <<>>
    /\ frame = <<>>
    /\ NoRefs
    /\ lexer = NewLexer

VersionsSpec == VersionsInit /\ [][Next]_vars

\* the database of VersionsInit is one the calls of Spec leave on the files
VersionsReached ==
    /\ pc = "idle"
    /\ mst = VersionsMst
    /\ xrfFd = VersionsXrf
    /\ <<nxtmfn, nxtmfb, nxtmfp, mstSize>> =
           <<5, 2, CTRL_SIZE + ExistingRecord.mfrl
                      + 2 * record_bytes(3, 0, 0, VersionsFields).mfrl, 2 * BLOCK_SIZE>>

----------------------------------------------------------------------------
(* C26: the status in the leader and the status in the xrf entry *)

\* the largest value struct packs into an "H" field of the leader or the directory
USHRT_MAX == 65535

\* a record with a tag that does not fit the directory entry
UnpackableInputs == {<<F(70000, "a")>>}

\* pack(DIR_MASK, int(tag), relative_offset, length) and pack(LEADER_MASK, ...)
\* accept the record
packs(fields) ==
    /\ \A i \in 1..Len(fields) : fields[i].tag <= USHRT_MAX
    /\ record_bytes(0, 0, 0, fields).mfrl <= USHRT_MAX

\* the record as a struct module that masks an overflowing value packs it
masked(fields) ==
    [i \in 1..Len(fields) |-> [fields[i] EXCEPT !.tag = @ % (USHRT_MAX + 1)]]

\* save of a record pack() refuses: struct.error leaves save after nxtmfn was
\* advanced and the leader of the version to replace was flagged, before
\* anything else is written
SaveRaises(fields, given, reset_flags) ==
    /\ pc = "idle"
    /\ nsaves < MaxSaves
    /\ nsaves' = nsaves + 1
    /\ ~packs(fields)
    /\ \E mfn \in {IF given = 0 THEN nxtmfn ELSE given} :
       \E x \in {getitem(xrfFd, xrf, xrfLoaded, mfn, XL)} :
       \E o \in {get_record_offset(x.entry, nxtmfb, nxtmfp)} :
       \E plan \in {save_plan(o.status, o.pos, x.entry, reset_flags, 0, 0,
                              nxtmfb, nxtmfp)} :
           /\ Raised("save", mfn, x)
           /\ IF x.ok /\ o.ok
              THEN /\ nxtmfn' = nxtmfn + plan.grow
                   /\ mst' = IF plan.patch
                             THEN patch_status(mst, o.pos, LOGICALLY_DELETED)
                             ELSE mst
                   /\ mstDirty' = (mstDirty \/ plan.patch)
              ELSE UNCHANGED <<nxtmfn, mst, mstDirty>>
    /\ UNCHANGED formatter
    /\ UNCHANGED <<mftype, nxtmfb, nxtmfp, ctl, mstSize, xrfDirty, pc, pend>>

\* save of a record with a value out of the range of its "H" field: the
\* struct module raises struct.error or, in the releases that only warn,
\* masks the value
SaveUnpackable(fields, given, reset_flags, raises) ==
    IF raises THEN SaveRaises(fields, given, reset_flags)
    ELSE SaveRecord(masked(fields), given, reset_flags, FALSE)

FailNext ==
    \/ Next
    \/ \E fields \in UnpackableInputs, given \in SaveMfns, reset_flags \in BOOLEAN,
          raises \in BOOLEAN :
          SaveUnpackable(fields, given, reset_flags, raises)

FailSpec == Init /\ [][FailNext]_vars

\* the status in the leader of the record the xrf entry of an mfn points at
\* is the status of the entry (where that record is whole on the file)
LeaderAgrees(mfn) ==
    LET o == get_record_offset(Entry(mfn), nxtmfb, nxtmfp)
    IN  o.pos \in DOMAIN mst => mst[o.pos].status = str2status(Entry(mfn).status)

\* C26: whenever no call is in progress, the leader of every MFN that is
\* active or logically deleted in the XRF carries the status of the XRF
\* entry, also after a save or a delete that failed part-way
C26_LeaderStatusAgrees ==
    pc = "idle" =>
        \A mfn \in CallMfns :
            Entry(mfn).status \in {"active", "logically deleted"} => LeaderAgrees(mfn)

----------------------------------------------------------------------------
(* C20: where save writes the record *)

\* C20: a save with reset_flags False writes the record, new or updated, at
\* nxtmfb * BLOCK_SIZE + nxtmfp of the control values before the call, moved
\* to the next block boundary when its in-block offset is in end_block..511
C20_WritePosition ==
    (Saved /\ ~lastOp.reset_flags) =>
        /\ lastOp.pos = split_pos(lastOp.pre.tail)
        /\ mst[lastOp.pos].mfn = lastOp.mfn
        /\ ~(lastOp.pos % BLOCK_SIZE \in end_block..511)

----------------------------------------------------------------------------
(* The formatting language (pyisis.ast): texts.  A text is a sequence of   *)
(* one-character strings, so that the model can index, cut and search it    *)
(* as the code does.                                                        *)

SINGLESPACE == " "
\* LeafNode.linesep as flatten sets it
linesep == "\n"

Min(a, b) == IF a <= b THEN a ELSE b

\* s[a:b] for 0 <= a
PySlice(s, a, b) == SubSeq(s, a + 1, Min(b, Len(s)))

\* s[a:] for 0 <= a
PyFrom(s, a) == SubSeq(s, a + 1, Len(s))

\* ''.join(list)
RECURSIVE join(_)
join(list) == IF list = <<>> THEN <<>> ELSE Head(list) \o join(Tail(list))

\* s.rfind(ch, lo, hi): the highest 0-based index in lo..hi-1 holding ch, or -1
rfind(s, ch, lo, hi) ==
    LET found == {i \in lo..(Min(hi, Len(s)) - 1) : s[i + 1] = ch}
    IN  IF found = {} THEN -1 ELSE CHOOSE i \in found : \A j \in found : j <= i

\* s.find(ch): the lowest 0-based index holding ch, or -1
find(s, ch) ==
    LET found == {i \in 0..(Len(s) - 1) : s[i + 1] = ch}
    IN  IF found = {} THEN -1 ELSE CHOOSE i \in found : \A j \in found : i <= j

\* the characters str.strip() removes
Whitespace == {" ", "\n"}

\* s.strip()
strip(s) ==
    LET kept == {i \in 1..Len(s) : s[i] \notin Whitespace}
    IN  IF kept = {} THEN <<>>
        ELSE SubSeq(s, CHOOSE i \in kept : \A j \in kept : i <= j,
                       CHOOSE i \in kept : \A j \in kept : j <= i)

\* s.split(sep) for a one-character separator
RECURSIVE split(_, _)
split(s, sep) ==
    LET i == find(s, sep)
    IN  IF i = -1 THEN <<s>>
        ELSE <<PySlice(s, 0, i)>> \o split(PyFrom(s, i + 1), sep)

\* the lines of an output text
lines(s) == split(s, linesep)

\* unicode.upper() on the letters of the model
Lower == <<"a", "b", "c", "d", "e", "f", "g", "h", "i", "j", "k", "l", "m", "n", "o", "p", "q", "r", "s", "t", "u", "v", "w", "x", "y", "z">>
Upper == <<"A", "B", "C", "D", "E", "F", "G", "H", "I", "J", "K", "L", "M", "N", "O", "P", "Q", "R", "S", "T", "U", "V", "W", "X", "Y", "Z">>
UpperChar(c) ==
    IF \E i \in 1..26 : Lower[i] = c THEN Upper[CHOOSE i \in 1..26 : Lower[i] = c] ELSE c
upper(s) == [i \in 1..Len(s) |-> UpperChar(s[i])]

\* the decimal digits
Digits == <<"0", "1", "2", "3", "4", "5", "6", "7", "8", "9">>

\* int() of a text: the number its decimal digits denote, blanks around
\* them ignored, or ValueError
RECURSIVE int_digits(_, _)
int_digits(s, acc) ==
    IF s = <<>> THEN acc
    ELSE int_digits(Tail(s), 10 * acc + ((CHOOSE d \in 1..10 : Digits[d] = Head(s)) - 1))

int(text) ==
    LET s == strip(text)
    IN  IF s # <<>> /\ \A i \in 1..Len(s) : \E d \in 1..10 : Digits[d] = s[i]
        THEN [raised |-> FALSE, value |-> int_digits(s, 0)]
        ELSE [raised |-> TRUE, value |-> 0]

\* unicode() of a number
RECURSIVE unicode(_)
unicode(n) ==
    IF n < 10 THEN <<Digits[n + 1]>> ELSE unicode(n \div 10) \o <<Digits[(n % 10) + 1]>>

\* get_last_line: the text after the last linesep of the workarea
get_last_line(workarea) ==
    IF workarea = <<>> THEN <<>>
    ELSE IF workarea[Len(workarea)] # <<>>
            /\ workarea[Len(workarea)][Len(workarea[Len(workarea)])] = linesep
    THEN <<>>
    ELSE LET result == join(workarea)
         IN  PyFrom(result, rfind(result, linesep, 0, Len(result)) + 1)

\* break_line(line, max_width, spaces)
RECURSIVE break_line(_, _, _)
break_line(line, max_width, spaces) ==
    IF Len(line) <= max_width \/ max_width <= 0 THEN <<line>>
    ELSE
      LET cut1 == rfind(line, SINGLESPACE, 0, max_width + 1)
          \* line[cut_pos+1] raises IndexError past the end: the cut stays
          cut2 == IF cut1 + 1 < Len(line) /\ line[cut1 + 2] = SINGLESPACE
                  THEN rfind(PySlice(line, 0, cut1), SINGLESPACE, 0, max_width + 1)
                  ELSE cut1
          cut3 == IF cut2 <= 0 THEN max_width ELSE cut2
          cut_pos == IF strip(PySlice(line, 0, cut3)) = <<>> THEN max_width - 1 ELSE cut3
          rest == spaces \o PyFrom(line, cut_pos + 1)
      IN  <<PySlice(line, 0, cut_pos + 1)>>
          \o (IF rest # <<>> THEN break_line(rest, max_width, spaces) ELSE <<>>)

----------------------------------------------------------------------------
(* The formatting language: literals and LeafNode.format *)

\* s.find(sub): the lowest 0-based index at which sub occurs in s, or -1
findsub(s, sub) ==
    LET found == {i \in 0..(Len(s) - Len(sub)) : SubSeq(s, i + 1, i + Len(sub)) = sub}
    IN  IF found = {} THEN -1 ELSE CHOOSE i \in found : \A j \in found : i <= j

\* s.count(ch)
count(s, ch) == Cardinality({i \in 1..Len(s) : s[i] = ch})

\* the pieces joined by linesep, the first one without the szlastline
\* characters the workarea already holds
RECURSIVE pieces_text(_, _)
pieces_text(pieces, szlastline) ==
    IF pieces = <<>> THEN <<>>
    ELSE PyFrom(Head(pieces), szlastline)
         \o (IF Len(pieces) > 1 THEN <<linesep>> \o pieces_text(Tail(pieces), 0)
             ELSE <<>>)

\* the same pieces as the items appended to a workarea
RECURSIVE pieces_items(_, _)
pieces_items(pieces, szlastline) ==
    IF pieces = <<>> THEN <<>>
    ELSE <<PyFrom(Head(pieces), szlastline)>>
         \o (IF Len(pieces) > 1 THEN <<(<<linesep>>)>> \o pieces_items(Tail(pieces), 0)
             ELSE <<>>)

\* InconditionalLiteral.eval: the literal, in upper case under case U, with
\* a line break put before or inside it when it does not fit the last line
InconditionalLiteral_eval(literal, workarea, case, max_width, proc_chain) ==
    LET value == IF case = "U" THEN upper(literal) ELSE literal
        lastline == get_last_line(workarea)
        szlastline == Len(lastline)
        szvalue == Len(value)
        has_item == workarea # <<>>
        last_wa_item == IF has_item THEN workarea[Len(workarea)] ELSE <<>>
        broken == <<linesep>> \o value
        \* last_wa_item not in (linesep, ''): None passes the test
        not_blank == ~has_item \/ last_wa_item \notin {<<linesep>>, <<>>}
        result == join(workarea)
        sznl == IF result # <<>> /\ result[Len(result)] = linesep THEN 1 ELSE 0
        trimmed == IF sznl = 1 THEN PySlice(result, 0, Len(result) - 1) ELSE result
        last_line == PyFrom(trimmed, rfind(trimmed, linesep, 0, Len(trimmed)) + 1)
        new_pieces == break_line(lastline \o value, max_width, <<>>)
    IN  IF proc_chain THEN value
        ELSE IF /\ szlastline = 0 /\ has_item /\ last_wa_item # <<>> /\ not_blank
                /\ find(last_wa_item, linesep) \notin {0, Len(last_wa_item) - 1}
                /\ count(last_wa_item, linesep) = 2
        THEN IF Len(last_wa_item) + szvalue >= max_width THEN broken ELSE value
        ELSE IF not_blank /\ szlastline = 0
        THEN IF result # <<>> /\ Len(last_line) > 1
                /\ Len(last_line) + szvalue + sznl >= max_width
             THEN broken ELSE value
        ELSE IF szlastline = max_width - 1 /\ szvalue = 2 THEN broken
        ELSE IF \/ szlastline = 0 /\ szvalue < max_width
                \/ szlastline + szvalue = max_width /\ szvalue = 2
        THEN value
        ELSE IF /\ szlastline + szvalue > max_width /\ max_width - szlastline < szvalue
                /\ (~has_item \/ last_wa_item # <<linesep>>) /\ szvalue < max_width - 1
        THEN broken
        ELSE IF szlastline + szvalue > max_width \/ szvalue > max_width
        THEN IF findsub(lastline, new_pieces[1]) = 0 THEN broken
             ELSE pieces_text(new_pieces, szlastline)
        ELSE IF lastline # <<>> /\ Len(lastline) < max_width
                /\ Len(lastline) + szvalue >= max_width
        THEN broken
        ELSE value

\* the items LeafNode.format appends for the pieces of a text holding
\* linesep; szlastline is taken from the last line again for every piece
RECURSIVE format_pieces(_, _, _, _)
format_pieces(pieces, idx, lastline, max_width) ==
    IF pieces = <<>> THEN <<>>
    ELSE (IF Len(Head(pieces)) <= max_width + 1
          THEN <<PyFrom(Head(pieces), IF idx > 0 THEN 0 ELSE Len(lastline))>>
               \o (IF Len(pieces) > 1 THEN <<(<<linesep>>)>> ELSE <<>>)
          ELSE pieces_items(break_line(Head(pieces), max_width, <<>>), Len(lastline)))
         \o format_pieces(Tail(pieces), idx + 1, lastline, max_width)

\* LeafNode.format after eval returned value: the workarea with the value
\* appended, broken so that it does not exceed MAX_LINE_WIDTH
LeafNode_format(value, workarea, MAX_LINE_WIDTH) ==
    LET lastline == get_last_line(workarea)
        current == lastline \o value
        max_width == MAX_LINE_WIDTH - 1
        newline == current[Len(current)] = linesep
        body == IF newline THEN PySlice(current, 0, Len(current) - 1) ELSE current
    IN  IF find(current, linesep) >= 0
        THEN workarea \o format_pieces(split(body, linesep), 0, lastline, max_width)
                      \o (IF newline THEN <<(<<linesep>>)>> ELSE <<>>)
        ELSE IF Len(current) > max_width
        THEN workarea \o pieces_items(break_line(current, max_width, <<>>), Len(lastline))
        ELSE workarea \o <<value>>

----------------------------------------------------------------------------
(* The formatting language: lexer (pyisis.lexer) and grammar (pyisis.parser) *)
(* An expression is the sequence of its lexemes; a lexeme carries its source *)
(* characters and the token the lexer rule matching them returns.            *)

\* the lexemes of the expressions of the model
Lit(text) == [tok |-> "INCONDITIONALLITERAL", value |-> text,
              chars |-> <<"'">> \o text \o <<"'">>]
RLit(text) == [tok |-> "REPEATABLELITERAL", value |-> text,
               chars |-> <<"|">> \o text \o <<"|">>]
V(tag) == [tok |-> "VFIELD", value |-> unicode(tag), chars |-> <<"v">> \o unicode(tag)]
Num(digits) == [tok |-> "NUMBER", value |-> digits, chars |-> digits]
Word(tok, chars) == [tok |-> tok, value |-> chars, chars |-> chars]
Punct(tok, ch) == [tok |-> tok, value |-> <<ch>>, chars |-> <<ch>>]
MPU == Word("MODE", <<"m", "p", "u">>)
LW == Word("FUNCSTR", <<"l", "w">>)
PROC == Word("FUNCPROC", <<"p", "r", "o", "c">>)
CONTINUE == Word("FUNCSTRN", <<"c", "o", "n", "t", "i", "n", "u", "e">>)
BREAK == Word("FUNCSTRN", <<"b", "r", "e", "a", "k">>)
S1 == Word("SVARIABLE", <<"s", "1">>)
ATTR == Word("ATTR", <<":", "=">>)
LPAREN == Punct("LPAREN", "(")
RPAREN == Punct("RPAREN", ")")
COMMA == Punct("COMMA", ",")
PLUS == Punct("PLUS", "+")
SLASH == Punct("SLASH", "/")
SHARP == Punct("SHARP", "#")
PERCENT == Punct("PERCENT", "%")
\* a character that no rule of the lexer matches
Illegal(ch) == Punct("error", ch)

\* the text of an expression, the key of the formatter cache
RECURSIVE source(_)
source(expr) == IF expr = <<>> THEN <<>> ELSE Head(expr).chars \o source(Tail(expr))

\* the nodes of pyisis.ast the grammar builds
NoLiteral == [set |-> FALSE, value |-> <<>>, plus |-> FALSE]
InconditionalLiteral(value) == [type |-> "InconditionalLiteral", value |-> value]
RepeatableLiteral(value, plus, kind) ==
    [type |-> "RepeatableLiteral", value |-> value, plus |-> plus, kind |-> kind]
\* r_repeatableLiteral and l_repeatableLiteral are the literals that
\* decorate_field ties to the field and RepeatableLiteral.eval stores in it
Field(tag, r_repeatableLiteral, l_repeatableLiteral) ==
    [type |-> "Field", tag |-> tag, r_repeatableLiteral |-> r_repeatableLiteral,
     l_repeatableLiteral |-> l_repeatableLiteral]
Mode(chars) == [type |-> "Mode", mode |-> UpperChar(chars[2]), case |-> UpperChar(chars[3])]
Spacer(value) == [type |-> "Spacer", value |-> value]
Number(value) == [type |-> "Number", value |-> value]
Continue == [type |-> "Continue"]
Break == [type |-> "Break"]
\* Attr(varname, value): the value is the node (or the nodes) of the fmtelem
Attr(varname, value) == [type |-> "Attr", varname |-> upper(varname), value |-> value]
Variable(value) == [type |-> "Variable", value |-> value]
LineWidth(value) == [type |-> "LineWidth", value |-> value]
Proc(value) == [type |-> "Proc", value |-> value]
RepeatableGroup(value) == [type |-> "RepeatableGroup", value |-> value]

\* t_error: SyntaxError("Illegal character '%s' at position %d ...")
SyntaxError(ch, position) == [error |-> "SyntaxError", character |-> ch, position |-> position]

\* the lexer run over the whole expression: the position of the first
\* character no rule matches, or -1
RECURSIVE lexpos_of_error(_, _)
lexpos_of_error(expr, lexpos) ==
    IF expr = <<>> THEN -1
    ELSE IF Head(expr).tok = "error" THEN lexpos
    ELSE lexpos_of_error(Tail(expr), lexpos + Len(Head(expr).chars))

\* emptycomma: COMMA | emptycomma COMMA | (nothing)
RECURSIVE emptycomma(_)
emptycomma(ts) ==
    IF ts # <<>> /\ Head(ts).tok = "COMMA" THEN emptycomma(Tail(ts)) ELSE ts

Rejected == [ok |-> FALSE, nodes |-> <<>>, rest |-> <<>>]
Reduced(nodes, rest) == [ok |-> TRUE, nodes |-> nodes, rest |-> rest]

\* rposlit: REPEATABLELITERAL | PLUS REPEATABLELITERAL, the suffix of a field
rposlit(ts) ==
    IF ts # <<>> /\ ts[1].tok = "REPEATABLELITERAL"
    THEN Reduced(<<RepeatableLiteral(ts[1].value, FALSE, "postfix")>>, Tail(ts))
    ELSE IF Len(ts) >= 2 /\ ts[1].tok = "PLUS" /\ ts[2].tok = "REPEATABLELITERAL"
    THEN Reduced(<<RepeatableLiteral(ts[2].value, TRUE, "postfix")>>, Tail(Tail(ts)))
    ELSE Rejected

\* fieldselector: field | prefix field | field suffix | prefix field suffix,
\* with rprelit: REPEATABLELITERAL | REPEATABLELITERAL PLUS as the prefix
fieldselector(ts) ==
    LET has_prefix == ts[1].tok = "REPEATABLELITERAL"
        plus == has_prefix /\ Len(ts) >= 2 /\ ts[2].tok = "PLUS"
        at == IF has_prefix THEN (IF plus THEN Tail(Tail(ts)) ELSE Tail(ts)) ELSE ts
        suffix == rposlit(Tail(at))
        r == IF has_prefix
             THEN [set |-> TRUE, value |-> ts[1].value, plus |-> plus] ELSE NoLiteral
        l == IF suffix.ok
             THEN [set |-> TRUE, value |-> suffix.nodes[1].value,
                   plus |-> suffix.nodes[1].plus]
             ELSE NoLiteral
    IN  IF at = <<>> \/ at[1].tok # "VFIELD" THEN Rejected
        ELSE Reduced((IF has_prefix
                      THEN <<RepeatableLiteral(ts[1].value, plus, "prefix")>> ELSE <<>>)
                     \o <<Field(int(at[1].value).value, r, l)>>
                     \o suffix.nodes,
                     IF suffix.ok THEN suffix.rest ELSE Tail(at))

RECURSIVE fmtelem(_), fmtlist(_), attribexpr(_)

\* LPAREN fmtlist RPAREN after a function name, or the repeatablegroup
\* LPAREN emptycomma isisfmt RPAREN
parenthesized(ts, group) ==
    IF ts = <<>> \/ ts[1].tok # "LPAREN" THEN Rejected
    ELSE LET inner == fmtlist(IF group THEN emptycomma(Tail(ts)) ELSE Tail(ts))
         IN  IF inner.ok /\ inner.rest # <<>> /\ inner.rest[1].tok = "RPAREN"
             THEN Reduced(inner.nodes, Tail(inner.rest))
             ELSE Rejected

\* attribexpr: SVARIABLE ATTR fmtelem, and strexpr: SVARIABLE
attribexpr(ts) ==
    IF Len(ts) >= 2 /\ ts[2].tok = "ATTR"
    THEN IF fmtelem(Tail(Tail(ts))).ok
         THEN Reduced(<<Attr(ts[1].value, fmtelem(Tail(Tail(ts))).nodes)>>,
                      fmtelem(Tail(Tail(ts))).rest)
         ELSE Rejected
    ELSE Reduced(<<Variable(ts[1].value)>>, Tail(ts))

\* fmtelem: the format elements of the model
fmtelem(ts) ==
    IF ts = <<>> THEN Rejected
    ELSE LET t == ts[1]
             args == parenthesized(Tail(ts), FALSE)
             group == parenthesized(ts, TRUE)
         IN  CASE t.tok = "INCONDITIONALLITERAL" ->
                      Reduced(<<InconditionalLiteral(t.value)>>, Tail(ts))
               [] t.tok \in {"REPEATABLELITERAL", "VFIELD"} -> fieldselector(ts)
               [] t.tok = "MODE" -> Reduced(<<Mode(t.value)>>, Tail(ts))
               [] t.tok \in {"SLASH", "SHARP", "PERCENT"} -> Reduced(<<Spacer(t.value[1])>>, Tail(ts))
               [] t.tok = "NUMBER" -> Reduced(<<Number(int(t.value).value)>>, Tail(ts))
               [] t.tok = "FUNCSTRN" ->
                      Reduced(<<IF t = CONTINUE THEN Continue ELSE Break>>, Tail(ts))
               [] t.tok = "SVARIABLE" -> attribexpr(ts)
               [] t.tok = "FUNCSTR" ->
                      IF args.ok THEN Reduced(<<LineWidth(args.nodes)>>, args.rest)
                      ELSE Rejected
               [] t.tok = "FUNCPROC" ->
                      IF args.ok THEN Reduced(<<Proc(args.nodes)>>, args.rest)
                      ELSE Rejected
               [] t.tok = "LPAREN" ->
                      IF group.ok THEN Reduced(<<RepeatableGroup(group.nodes)>>, group.rest)
                      ELSE Rejected
               [] OTHER -> Rejected

\* fmtlist: fmtelem emptycomma | fmtlist emptycomma fmtelem emptycomma, the
\* nodes merged into one Sequence
fmtlist(ts) ==
    LET first == fmtelem(ts)
        after == emptycomma(first.rest)
        more == fmtlist(after)
    IN  IF ~first.ok THEN Rejected
        ELSE IF after = <<>> \/ after[1].tok = "RPAREN" THEN Reduced(first.nodes, after)
        ELSE IF more.ok THEN Reduced(first.nodes \o more.nodes, more.rest)
        ELSE Rejected

\* statement: isisfmt.  The whole token sequence has to reduce to one
statement(ts) ==
    LET s == fmtlist(ts)
    IN  [accepted |-> ts # <<>> /\ s.ok /\ s.rest = <<>>, ast |-> s.nodes]

----------------------------------------------------------------------------
(* The formatting language: Field.  The field selectors of the model hold   *)
(* a tag only (type v; no subfield, occurrence, slicer or alignment, so     *)
(* that the indentation spaces are empty), the chain holds no conditional   *)
(* literal, and the data holds none of the characters that heading mode     *)
(* rewrites.                                                                *)

\* a value or the exception that left the evaluation
Value(text) == [raised |-> FALSE, text |-> text]
Raises(what) == [raised |-> TRUE, text |-> <<>>, error |-> what]

\* do_break_line of Field.eval, the indentation spaces being empty
do_break_line(result, lastline, max_width) ==
    LET new_pieces == break_line(lastline \o result, max_width, <<>>)
    IN  IF findsub(lastline, new_pieces[1]) >= 0 /\ Len(new_pieces) = 2
        THEN <<linesep>> \o result
        ELSE pieces_text(new_pieces, Len(lastline))

\* Field.eval on one MasterField with repeatable literals: the data between
\* its prefix and suffix, with the line break the last line asks for
MasterField_text(data, r, l, occ, mcfSize, workarea, max_width, proc_chain) ==
    LET lastline0 == get_last_line(workarea)
        szlastline == Len(lastline0)
        prefix == IF r.set /\ r.value # <<>> /\ ~r.plus THEN r.value ELSE <<>>
        suffix == IF l.set /\ l.value # <<>> /\ ~(l.plus /\ (occ = mcfSize \/ occ = 0))
                  THEN l.value ELSE <<>>
        result0 == prefix \o data \o suffix
        unprefixed == PyFrom(result0, Len(prefix))
        length == max_width + 2 - szlastline + Len(prefix)
        line == PySlice(unprefixed, 0, length)
        last_pos == IF Len(line) < length THEN Len(line) - 1
                    ELSE rfind(line, SINGLESPACE, 0, Len(line))
        first_word == PySlice(line, 0, last_pos + 1)
        \* [fresult, lastline, result] after the overflow analysis
        same == [fresult |-> <<>>, lastline |-> lastline0, result |-> result0]
        step ==
            IF prefix # <<>> /\ szlastline + Len(result0) > max_width
            THEN IF szlastline + Len(prefix) > max_width + 1
                 THEN [same EXCEPT !.fresult = <<linesep>>, !.lastline = <<>>]
                 ELSE IF prefix[1] = SINGLESPACE
                 THEN IF szlastline + Len(prefix) \in {max_width + 1, max_width}
                      THEN [fresult |-> prefix \o <<"\n">>, lastline |-> <<>>,
                            result |-> unprefixed]
                      ELSE IF last_pos = -1
                      THEN IF szlastline + Len(prefix) <= max_width
                           THEN [fresult |-> prefix \o <<linesep>>, lastline |-> <<>>,
                                 result |-> unprefixed]
                           ELSE [same EXCEPT !.fresult = <<linesep>>, !.lastline = <<>>]
                      ELSE IF szlastline + Len(first_word) + Len(prefix) <= max_width
                      THEN [fresult |-> prefix \o first_word \o <<linesep>>,
                            lastline |-> <<>>,
                            result |-> PyFrom(result0, Len(prefix) + Len(first_word))]
                      ELSE same
                 ELSE same
            ELSE IF /\ lastline0 # <<>> /\ szlastline + Len(result0) > max_width
                    /\ lastline0[szlastline] # SINGLESPACE
                    /\ find(result0, SINGLESPACE) = -1
            THEN [same EXCEPT !.fresult = <<linesep>>, !.lastline = <<>>]
            ELSE same
    IN  IF proc_chain THEN result0
        ELSE IF Len(step.lastline) > max_width THEN step.fresult
        ELSE IF step.lastline = <<>> /\ Len(step.result) < max_width /\ workarea = <<>>
        THEN step.result
        ELSE step.fresult \o do_break_line(step.result, step.lastline, max_width)

\* Field.eval on a MasterContainerField with repeatable literals, from
\* occurrence index on: every occurrence between the prefix and the suffix
RECURSIVE MasterContainerField_text(_, _, _, _, _, _, _, _)
MasterContainerField_text(occs, index, r, l, fresult, lastline, max_width, proc_chain) ==
    IF index > Len(occs) THEN Value(fresult)
    ELSE
      LET szlastline == Len(lastline)
          final_prefix == IF r.set /\ r.value # <<>> /\ ~(r.plus /\ index = 1)
                          THEN r.value ELSE <<>>
          final_suffix == IF l.set /\ l.value # <<>> /\ ~(l.plus /\ index = Len(occs))
                          THEN l.value ELSE <<>>
          field_txt == final_prefix \o occs[index] \o final_suffix
          total == szlastline + Len(field_txt)
          new_pieces == break_line(lastline \o field_txt, max_width, <<>>)
          last_piece == IF Len(new_pieces) = 1 THEN PyFrom(new_pieces[1], szlastline)
                        ELSE new_pieces[Len(new_pieces)]
      IN  IF proc_chain
          THEN MasterContainerField_text(occs, index + 1, r, l, fresult \o field_txt,
                                         lastline, max_width, proc_chain)
          \* lastline[-1] of an empty last line
          ELSE IF total = max_width + 1 /\ lastline = <<>> THEN Raises("IndexError")
          ELSE IF total > max_width + 1
                  \/ (total > max_width /\ lastline[szlastline] = SINGLESPACE)
          THEN IF findsub(lastline, new_pieces[1]) >= 0
               THEN MasterContainerField_text(occs, index + 1, r, l,
                        fresult \o <<linesep>> \o field_txt, field_txt,
                        max_width, proc_chain)
               ELSE MasterContainerField_text(occs, index + 1, r, l,
                        fresult \o pieces_text(new_pieces, szlastline), last_piece,
                        max_width, proc_chain)
          ELSE MasterContainerField_text(occs, index + 1, r, l, fresult \o field_txt,
                                         lastline \o field_txt, max_width, proc_chain)

\* Field.eval: '' when the record has no such field or occurrence
Field_eval(node, record, workarea, occ, MAX_LINE_WIDTH, proc_chain) ==
    LET tag == node.tag
        field == record[tag]
        mcfSize == IF field.container THEN Len(field.occs) ELSE 1
        whole == occ = 0 /\ field.container
        has_literal == node.r_repeatableLiteral.set \/ node.l_repeatableLiteral.set
        data == IF whole THEN join(field.occs)
                ELSE field.occs[IF field.container THEN occ ELSE 1]
        max_width == MAX_LINE_WIDTH - 1
    IN  IF tag \notin DOMAIN record THEN Value(<<>>)
        ELSE IF occ # 0 /\ field.container /\ occ > Len(field.occs) THEN Value(<<>>)
        ELSE IF occ # 0 /\ ~field.container /\ occ # 1 THEN Value(<<>>)
        ELSE IF data \in {<<>>, <<linesep>>} THEN Value(<<>>)
        ELSE IF ~has_literal THEN Value(data)
        ELSE IF whole
        THEN MasterContainerField_text(field.occs, 1, node.r_repeatableLiteral,
                 node.l_repeatableLiteral, <<>>, get_last_line(workarea),
                 max_width, proc_chain)
        ELSE Value(MasterField_text(data, node.r_repeatableLiteral,
                 node.l_repeatableLiteral, occ, mcfSize, workarea, max_width,
                 proc_chain))

\* the last line of the workarea as Field.format takes it: of a line longer
\* than MAX_LINE_WIDTH, the last of the pieces break_line cuts it into
Field_lastline(workarea, MAX_LINE_WIDTH) ==
    LET lastline == get_last_line(workarea)
    IN  IF Len(lastline) > MAX_LINE_WIDTH
        THEN LET p == break_line(lastline, MAX_LINE_WIDTH, <<>>)
             IN  p[Len(p)]
        ELSE lastline

\* Field.format after self.eval returned e: field_text is its text in the
\* case of the chain, lastline the last line of the workarea
Field_append(node, workarea, MAX_LINE_WIDTH, proc_chain, e, field_text, lastline) ==
    LET max_width == MAX_LINE_WIDTH - 1
        full == Len(lastline) >= max_width
        lastline2 == IF full THEN <<>> ELSE lastline
        two_spaces == findsub(field_text, <<SINGLESPACE, SINGLESPACE>>)
        force_break_line ==
            /\ two_spaces >= 0
            /\ find(PySlice(field_text, 0, two_spaces), SINGLESPACE) = -1
            /\ two_spaces + 2 + Len(lastline2) > max_width
        words == break_line(lastline2 \o field_text, max_width, <<>>)
        again == force_break_line \/ Len(words[1]) < Len(lastline2)
        has_literal == node.r_repeatableLiteral.set \/ node.l_repeatableLiteral.set
    IN  IF e.raised THEN [raised |-> TRUE, workarea |-> workarea, field_exists |-> TRUE]
        ELSE [raised |-> FALSE,
              field_exists |-> field_text # <<>>,
              workarea |->
                  IF field_text = <<>> THEN workarea
                  ELSE IF proc_chain THEN Append(workarea, field_text)
                  ELSE IF has_literal
                  THEN workarea \o pieces_items(split(field_text, linesep), 0)
                  ELSE workarea
                       \o (IF full THEN <<(<<linesep>>)>> ELSE <<>>)
                       \o (IF again
                           THEN <<(<<linesep>>)>>
                                \o pieces_items(break_line(field_text, max_width, <<>>), 0)
                           ELSE pieces_items(words, Len(lastline2)))]

\* the text of e in the case of the chain
Field_cased(node, workarea, case, MAX_LINE_WIDTH, proc_chain, e) ==
    Field_append(node, workarea, MAX_LINE_WIDTH, proc_chain, e,
                 IF case = "U" THEN upper(e.text) ELSE e.text,
                 Field_lastline(workarea, MAX_LINE_WIDTH))

\* Field.format of a v field: the workarea with the text of the field
\* appended, and field_exists as the node keeps it
Field_format(node, record, workarea, case, occ, MAX_LINE_WIDTH, proc_chain) ==
    Field_cased(node, workarea, case, MAX_LINE_WIDTH, proc_chain,
                Field_eval(node, record, workarea, occ, MAX_LINE_WIDTH, proc_chain))

----------------------------------------------------------------------------
(* The formatting language: spacers, lw() and proc()                        *)

\* Spacer.delete_previous_newlines: of the items of the workarea that are a
\* line separator, the ones that follow another such item are dropped
RECURSIVE delete_previous_newlines(_, _)
delete_previous_newlines(workarea, flag) ==
    IF workarea = <<>> THEN <<>>
    ELSE IF Head(workarea) # <<linesep>>
    THEN <<Head(workarea)>> \o delete_previous_newlines(Tail(workarea), 0)
    ELSE IF flag = 0
    THEN <<Head(workarea)>> \o delete_previous_newlines(Tail(workarea), 1)
    ELSE delete_previous_newlines(Tail(workarea), 1)

\* Spacer.format: '#' appends a line separator, '/' appends one unless the
\* workarea ends with one, '%' drops the repeated separators; nothing when
\* the node before it in the chain is a Field whose last evaluation found no
\* text
Spacer_format(value, workarea, previous_node, field_exists) ==
    IF previous_node.type = "Field" /\ ~field_exists THEN workarea
    ELSE IF value = "#" THEN Append(workarea, <<linesep>>)
    ELSE IF value = "%" THEN delete_previous_newlines(workarea, 0)
    ELSE LET last_line == join(workarea)
         IN  IF last_line # <<>> /\ last_line[Len(last_line)] = linesep THEN workarea
             ELSE Append(workarea, <<linesep>>)

\* Spacer.eval, the spacer inside a repeatable group
Spacer_eval(value, workarea) ==
    IF value # "#" /\ workarea # <<>>
    THEN LET last == workarea[Len(workarea)]
         IN  IF last = <<>> THEN Raises("IndexError")
             ELSE IF last[Len(last)] = linesep THEN Value(<<>>)
             ELSE IF value = "%" THEN Value(<<>>)
             ELSE Value(<<linesep>>)
    ELSE IF value = "%" THEN Value(<<>>)
    ELSE Value(<<linesep>>)

\* self.expr1.eval(...) of LineWidth.eval.  The parameter of the model is a
\* number, a literal or a field.
LineWidth_expr1(expr1, record, workarea, case, occ, MAX_LINE_WIDTH) ==
    CASE expr1.type = "InconditionalLiteral" ->
             Value(InconditionalLiteral_eval(expr1.value, workarea, case,
                                             MAX_LINE_WIDTH, FALSE))
      [] expr1.type = "Field" ->
             Field_eval(expr1, record, workarea, occ, MAX_LINE_WIDTH, FALSE)
      [] OTHER -> Raises("Exception")

\* int(...) of the evaluated parameter
LineWidth_int(text) ==
    IF text.raised THEN [raised |-> TRUE, value |-> 0] ELSE int(text.text)

\* mst.config.MAX_LINE_WIDTH = n, or Exception("Invalid parameter")
LineWidth_set(expr1, n, MAX_LINE_WIDTH) ==
    IF expr1.type = "Number"
    THEN [raised |-> FALSE, error |-> "", MAX_LINE_WIDTH |-> expr1.value]
    ELSE IF n.raised
    THEN [raised |-> TRUE, error |-> "Invalid parameter",
          MAX_LINE_WIDTH |-> MAX_LINE_WIDTH]
    ELSE [raised |-> FALSE, error |-> "", MAX_LINE_WIDTH |-> n.value]

\* LineWidth.eval: the new MAX_LINE_WIDTH, or the exception of a wrong
\* number of parameters or of a parameter that is not a number
LineWidth_eval(node, record, workarea, case, occ, MAX_LINE_WIDTH) ==
    IF Len(node.value) # 1
    THEN [raised |-> TRUE, error |-> "Wrong number of parameters",
          MAX_LINE_WIDTH |-> MAX_LINE_WIDTH]
    ELSE LineWidth_set(node.value[1],
                       LineWidth_int(LineWidth_expr1(node.value[1], record, workarea,
                                                     case, occ, MAX_LINE_WIDTH)),
                       MAX_LINE_WIDTH)

\* proc_filter_add, [Aa](\d+).([...]*).  The characters of the class of its
\* second group are all those of the model but these
NotInAddClass == {"^", "~", "{", "}"}

\* the match of proc_filter_add that starts at the 0-based position s: the
\* digits are taken greedily, then one character that is no line separator,
\* then the longest run of the class that leaves one closing character
add_match(text, s) ==
    LET n == Len(text)
        IsDigit(i) == i < n /\ \E d \in 1..10 : Digits[d] = text[i + 1]
        Fits(k, q) ==
            /\ \A i \in (s + 1)..(s + k) : IsDigit(i)
            /\ s + 1 + k < n /\ text[s + k + 2] # "\n"
            /\ q > s + 1 + k /\ q < n /\ text[q + 1] # "\n"
            /\ \A i \in (s + k + 2)..(q - 1) : text[i + 1] \notin NotInAddClass
        ks == {k \in 1..n : \E q \in 0..(n - 1) : Fits(k, q)}
        k == CHOOSE x \in ks : \A y \in ks : y <= x
        qs == {q \in 0..(n - 1) : Fits(k, q)}
        q == CHOOSE x \in qs : \A y \in qs : y <= x
    IN  IF s >= n \/ text[s + 1] \notin {"a", "A"} \/ ks = {} THEN [found |-> FALSE]
        ELSE [found |-> TRUE, field |-> PySlice(text, s + 1, s + 1 + k),
              value |-> PySlice(text, s + k + 2, q), end |-> q + 1]

\* proc_filter_add.findall(result): the (field, value) pairs of the matches
\* from position s on, from left to right
RECURSIVE add_tags(_, _)
add_tags(text, s) ==
    IF s >= Len(text) THEN <<>>
    ELSE LET m == add_match(text, s)
         IN  IF m.found THEN <<m>> \o add_tags(text, m.end)
             ELSE add_tags(text, s + 1)

\* add_field of Proc.eval: a new occurrence after the ones the record has
add_field(record, field, value) ==
    [t \in DOMAIN record \cup {field} |->
        IF t # field THEN record[t]
        ELSE IF field \in DOMAIN record
        THEN [container |-> TRUE, occs |-> Append(record[field].occs, value)]
        ELSE [container |-> FALSE, occs |-> <<value>>]]

\* node.eval under LeafNode.proc_chain, for a parameter of proc().  The
\* parameters of the model are literals and fields; no RepeatableLiteral is
\* evaluated here, so a field has none.
\* in_sequence: several parameters make a Sequence, whose fields are formatted
Sequence_node(node, in_sequence, record, workarea, case, occ, MAX_LINE_WIDTH) ==
    CASE node.type = "InconditionalLiteral" ->
             InconditionalLiteral_eval(node.value, workarea, case, MAX_LINE_WIDTH, TRUE)
      [] node.type = "Field" ->
             LET e == Field_eval([node EXCEPT !.r_repeatableLiteral = NoLiteral,
                                              !.l_repeatableLiteral = NoLiteral],
                                 record, workarea, occ, MAX_LINE_WIDTH, TRUE)
             IN  IF in_sequence /\ case = "U" THEN upper(e.text) ELSE e.text
      [] OTHER -> <<>>

RECURSIVE Sequence_eval(_, _, _, _, _, _, _)

\* result += the text of a node, and the nodes after it
Sequence_result(text, nodes, in_sequence, record, workarea, case, occ, MAX_LINE_WIDTH) ==
    text \o Sequence_eval(nodes, in_sequence, record,
                          IF text = <<>> THEN workarea ELSE Append(workarea, text),
                          case, occ, MAX_LINE_WIDTH)

\* Sequence.eval under LeafNode.proc_chain: the text of the parameters of
\* proc()
Sequence_eval(nodes, in_sequence, record, workarea, case, occ, MAX_LINE_WIDTH) ==
    IF nodes = <<>> THEN <<>>
    ELSE Sequence_result(Sequence_node(Head(nodes), in_sequence, record, workarea,
                                       case, occ, MAX_LINE_WIDTH),
                         Tail(nodes), in_sequence, record, workarea, case, occ,
                         MAX_LINE_WIDTH)

\* the add commands applied one after the other
RECURSIVE apply_add(_, _)
apply_add(record, tags) ==
    IF tags = <<>> THEN record
    ELSE apply_add(add_field(record, int(Head(tags).field).value, Head(tags).value),
                   Tail(tags))

\* Proc.eval: the record after the add commands of the evaluated text; the
\* node itself evaluates to ''.  The texts of the model hold no delete,
\* gizmo, gsplit or hadd command.
Proc_eval(node, record, workarea, case, occ, MAX_LINE_WIDTH) ==
    apply_add(record,
              add_tags(Sequence_eval(node.value, Len(node.value) > 1, record, workarea,
                                     case, occ, MAX_LINE_WIDTH), 0))

----------------------------------------------------------------------------
(* The formatting language: RepeatableGroup                                 *)

\* max_repeat of a node: the number of occurrences it asks a group to
\* iterate, or -1 where the call raises (a nested group; a proc, whose value
\* is a list without max_repeat)
RECURSIVE max_repeat(_, _)
max_repeat(node, record) ==
    CASE node.type = "Field" ->
           IF node.tag \notin DOMAIN record THEN 0
           ELSE IF record[node.tag].container THEN Len(record[node.tag].occs)
           ELSE 1
      [] node.type \in {"RepeatableGroup", "Proc", "Variable"} -> -1
      [] node.type = "Attr" ->
           IF Len(node.value) = 1 THEN max_repeat(node.value[1], record) ELSE -1
      [] node.type = "LineWidth" ->
           LET counts == {max_repeat(node.value[i], record) : i \in 1..Len(node.value)}
           IN  IF -1 \in counts THEN -1 ELSE CHOOSE c \in counts : \A d \in counts : d <= c
      [] OTHER -> 1

\* whether the value of the node is '/' (or one of '/', '#')
value_in(node, values) ==
    \/ node.type = "Spacer" /\ node.value \in values
    \/ node.type = "InconditionalLiteral" /\ node.value \in {<<v>> : v \in values}

\* evaluated = node.eval(...): the text appended to results, or the
\* exception that leaves the group.  g holds results, the chain attributes
\* mode and case of the body, MAX_LINE_WIDTH, and how the inner loop was left
\* (exit, position, error).
group_evaluated(g, position, e) ==
    IF e.raised THEN [g EXCEPT !.exit = "raise", !.position = position, !.error = e.error]
    ELSE IF e.text = <<>> THEN g
    ELSE [g EXCEPT !.results = Append(@, e.text)]

\* temp_result = node.format(...) of a Field: what it appended to
\* workarea + results goes to results
group_field(g, position, szworkarea, f) ==
    IF f.raised
    THEN [g EXCEPT !.exit = "raise", !.position = position, !.error = "IndexError"]
    ELSE [g EXCEPT !.results = @ \o SubSeq(f.workarea, szworkarea + 1, Len(f.workarea))]

\* lw() inside a group
group_width(g, position, e) ==
    IF e.raised THEN [g EXCEPT !.exit = "raise", !.position = position, !.error = e.error]
    ELSE [g EXCEPT !.MAX_LINE_WIDTH = e.MAX_LINE_WIDTH]

\* Variable.eval: the text of the variable, in upper case under case U; ''
\* for a variable that was never assigned (KeyError)
Variable_eval(node, variables, case) ==
    IF upper(node.value) \notin DOMAIN variables THEN <<>>
    ELSE IF case = "U" THEN upper(variables[upper(node.value)])
    ELSE variables[upper(node.value)]

\* chain.variables[self.varname] = value
assigned(variables, varname, value) ==
    [v \in DOMAIN variables \cup {varname} |->
        IF v = varname THEN value ELSE variables[v]]

\* Attr.eval: self.value.eval(...), then the value is stored under the name
\* of the variable.  [signal, text, variables]: signal is the exception of a
\* break or continue the value raises ("none" when it raises none).  The
\* values of the model are literals, variables, break, continue and Attr.
RECURSIVE Attr_eval(_, _, _, _, _)
Attr_eval(node, variables, workarea, case, MAX_LINE_WIDTH) ==
    LET v == node.value[1]
        inner ==
            CASE Len(node.value) # 1 -> [signal |-> "none", text |-> <<>>, variables |-> variables]
              [] v.type = "Attr" -> Attr_eval(v, variables, workarea, case, MAX_LINE_WIDTH)
              [] v.type = "Break" ->
                   [signal |-> "break", text |-> <<>>, variables |-> variables]
              [] v.type = "Continue" ->
                   [signal |-> "continue", text |-> <<>>, variables |-> variables]
              [] v.type = "InconditionalLiteral" ->
                   [signal |-> "none", variables |-> variables,
                    text |-> InconditionalLiteral_eval(v.value, workarea, case,
                                                       MAX_LINE_WIDTH, FALSE)]
              [] v.type = "Variable" ->
                   [signal |-> "none", variables |-> variables,
                    text |-> Variable_eval(v, variables, case)]
              [] OTHER -> [signal |-> "none", text |-> <<>>, variables |-> variables]
    IN  IF inner.signal # "none" THEN inner
        ELSE [inner EXCEPT !.variables = assigned(inner.variables, node.varname, inner.text)]

\* one node of the body, for one occurrence; wa is workarea + results
group_node(node, position, occ, record, wa, g) ==
    IF node.type = "RepeatableLiteral" THEN g
    ELSE IF /\ value_in(node, {"/"}) /\ g.results # <<>>
            /\ g.results[Len(g.results)] = <<linesep>>
    THEN g
    ELSE IF node.type = "Field"
    THEN group_field(g, position, Len(wa),
                     Field_format(node, record, wa, g.case, occ, g.MAX_LINE_WIDTH, FALSE))
    ELSE IF node.type = "InconditionalLiteral"
    THEN group_evaluated(g, position,
                         Value(InconditionalLiteral_eval(node.value, wa, g.case,
                                                         g.MAX_LINE_WIDTH, FALSE)))
    ELSE IF node.type = "Spacer"
    THEN group_evaluated(g, position, Spacer_eval(node.value, wa))
    ELSE IF node.type = "Mode"
    THEN [g EXCEPT !.mode = node.mode, !.case = node.case]
    ELSE IF node.type = "LineWidth"
    THEN group_width(g, position,
                     LineWidth_eval(node, record, wa, g.case, occ, g.MAX_LINE_WIDTH))
    ELSE IF node.type = "Number"
    THEN IF node.value = 0 THEN g
         ELSE [g EXCEPT !.exit = "raise", !.position = position, !.error = "TypeError"]
    ELSE IF \/ node.type = "Continue"
            \/ /\ node.type = "Attr"
               /\ Attr_eval(node, <<>>, wa, g.case, g.MAX_LINE_WIDTH).signal = "continue"
    THEN [g EXCEPT !.exit = "continue", !.position = position]
    ELSE IF \/ node.type = "Variable"
            \/ /\ node.type = "Attr"
               /\ Attr_eval(node, <<>>, wa, g.case, g.MAX_LINE_WIDTH).signal = "none"
    \* chain.variables: the Sequence of a group has no such attribute
    THEN [g EXCEPT !.exit = "raise", !.position = position, !.error = "AttributeError"]
    ELSE [g EXCEPT !.exit = "break", !.position = position]

\* the inner loop of RepeatableGroup.eval from the node at position on, for
\* one occurrence
RECURSIVE group_nodes(_, _, _, _, _, _)
group_nodes(sequence, position, occ, record, workarea, g) ==
    IF g.exit # "end" THEN g
    ELSE IF position >= Len(sequence) THEN [g EXCEPT !.position = position - 1]
    ELSE group_nodes(sequence, position + 1, occ, record, workarea,
                     group_node(sequence[position + 1], position, occ, record,
                                workarea \o g.results, g))

RECURSIVE group_occs(_, _, _, _, _, _, _, _)

\* the handlers of ContinueException and BreakException, and the next
\* occurrence; r is the body as the inner loop left it
group_next(sequence, occ, limit, lineseppos, record, workarea, chain, r) ==
    LET separated == IF lineseppos > r.position
                     THEN [r EXCEPT !.results = Append(@, <<linesep>>)] ELSE r
    IN  IF r.exit = "raise" THEN r
        ELSE IF r.exit = "break" THEN separated
        ELSE group_occs(sequence, occ + 1, limit, lineseppos, record, workarea, chain,
                        IF r.exit = "continue" THEN separated ELSE r)

\* the outer loop of RepeatableGroup.eval: for occ in range(occ, limit).
\* visited lists the occurrence indices the body was evaluated for.
group_occs(sequence, occ, limit, lineseppos, record, workarea, chain, g) ==
    IF occ >= limit THEN g
    ELSE group_next(sequence, occ, limit, lineseppos, record, workarea, chain,
                    group_nodes(sequence, 0, occ, record, workarea,
                                [g EXCEPT !.mode = chain.mode, !.case = chain.case,
                                          !.exit = "end", !.error = "",
                                          !.visited = Append(@, occ)]))

\* return ''.join(results), or the exception that left the loops
RepeatableGroup_text(g) ==
    [raised |-> g.exit = "raise", text |-> join(g.results),
     MAX_LINE_WIDTH |-> g.MAX_LINE_WIDTH, visited |-> g.visited,
     error |-> g.error]

\* RepeatableGroup.eval: the text of the group, MAX_LINE_WIDTH after it and
\* the occurrence indices visited, or the exception that left it
RepeatableGroup_eval(node, record, workarea, chain, MAX_LINE_WIDTH) ==
    LET sequence == node.value
        single == Len(sequence) = 1
        continues == {i \in 1..Len(sequence) : sequence[i].type = "Continue"}
        idx_continue == IF single \/ continues = {} THEN -1
                        ELSE (CHOOSE i \in continues : \A j \in continues : i <= j) - 1
        counts == [i \in 1..Len(sequence) |-> max_repeat(sequence[i], record)]
        raising == {i \in 1..Len(sequence) : counts[i] = -1}
        first == CHOOSE i \in raising : \A j \in raising : i <= j
        occs == CHOOSE c \in {counts[i] : i \in 1..Len(sequence)} \cup {0} :
                    \A i \in 1..Len(sequence) : counts[i] <= c
        seps == {i \in 1..Len(sequence) : value_in(sequence[i], {"/", "#"})}
        lineseppos == IF single \/ seps = {} THEN 0
                      ELSE (CHOOSE i \in seps : \A j \in seps : j <= i) - 1
        limit == IF idx_continue > 0 THEN occs + 2 ELSE occs + 1
    IN  IF raising # {}
        THEN [raised |-> TRUE, text |-> <<>>, MAX_LINE_WIDTH |-> MAX_LINE_WIDTH,
              visited |-> <<>>,
              error |-> IF sequence[first].type = "Proc" THEN "AttributeError"
                        ELSE "Exception"]
        ELSE RepeatableGroup_text(
                 group_occs(sequence, 1, limit, lineseppos, record, workarea, chain,
                            [results |-> <<>>, mode |-> chain.mode, case |-> chain.case,
                             MAX_LINE_WIDTH |-> MAX_LINE_WIDTH, visited |-> <<>>,
                             exit |-> "end", position |-> 0, error |-> ""]))

----------------------------------------------------------------------------
(* The formatting language: format_chain.  The chain carries the attributes *)
(* format_chain and the nodes keep on it (mode, case, field_exists of its   *)
(* Field nodes); env is what one evaluation works on.                       *)

\* flatten: the compiled chain of an ast, as format_chain receives it
flatten(ast) ==
    [nodes |-> ast, mode |-> "p", case |-> "l", variables |-> <<>>,
     field_exists |-> [pos \in 1..Len(ast) |-> TRUE]]

\* what an evaluation works on: the workarea, the record, the MAX_LINE_WIDTH
\* of the configuration, the exception if one was raised, and the occurrence
\* indices the last repeatable group visited
Env(record, MAX_LINE_WIDTH) ==
    [workarea |-> <<>>, record |-> record, MAX_LINE_WIDTH |-> MAX_LINE_WIDTH,
     raised |-> FALSE, error |-> "", visited |-> <<>>]

\* LeafNode.format: the text a node evaluates to goes to the workarea
Node_emit(chain, env, text, width) ==
    [chain |-> chain,
     env |-> [env EXCEPT !.workarea = LeafNode_format(text, env.workarea, width),
                         !.MAX_LINE_WIDTH = width]]

\* an exception leaves node.format
Node_failed(chain, env, error, width) ==
    [chain |-> chain,
     env |-> [env EXCEPT !.raised = TRUE, !.error = error, !.MAX_LINE_WIDTH = width]]

\* Field.format returned f; the node keeps field_exists
Node_field(chain, pos, env, f) ==
    IF f.raised THEN Node_failed(chain, env, "IndexError", env.MAX_LINE_WIDTH)
    ELSE [chain |-> [chain EXCEPT !.field_exists[pos] = f.field_exists],
          env |-> [env EXCEPT !.workarea = f.workarea]]

\* LeafNode.format of a LineWidth or RepeatableGroup node whose eval gave e
Node_evaluated(chain, env, e) ==
    IF e.raised
    THEN [Node_failed(chain, env, e.error, e.MAX_LINE_WIDTH)
             EXCEPT !.env.visited = e.visited]
    ELSE [Node_emit(chain, env, e.text, e.MAX_LINE_WIDTH)
             EXCEPT !.env.visited = e.visited]

\* Attr.format: self.eval(...) with no handler around it, and no output
Attr_format(chain, env, node) ==
    CHOOSE r \in {IF e.signal = "break"
                  THEN Node_failed(chain, env, "BreakException", env.MAX_LINE_WIDTH)
                  ELSE IF e.signal = "continue"
                  THEN Node_failed(chain, env, "ContinueException", env.MAX_LINE_WIDTH)
                  ELSE [chain |-> [chain EXCEPT !.variables = e.variables], env |-> env] :
                  e \in {Attr_eval(node, chain.variables, env.workarea, chain.case,
                                   env.MAX_LINE_WIDTH)}} : TRUE

\* node.format(rec, mst, local_workarea, chain, pos) for the node at the
\* 1-based position pos: the chain and the env after it
Node_format(chain, pos, env) ==
    LET node == chain.nodes[pos]
        before == IF pos = 1 THEN Len(chain.nodes) ELSE pos - 1
    IN  CASE node.type = "InconditionalLiteral" ->
               Node_emit(chain, env,
                         InconditionalLiteral_eval(node.value, env.workarea, chain.case,
                                                   env.MAX_LINE_WIDTH, FALSE),
                         env.MAX_LINE_WIDTH)
          [] node.type = "Field" ->
               Node_field(chain, pos, env,
                          Field_format(node, env.record, env.workarea, chain.case, 0,
                                       env.MAX_LINE_WIDTH, FALSE))
          [] node.type = "Mode" ->
               [chain |-> [chain EXCEPT !.mode = node.mode, !.case = node.case],
                env |-> env]
          [] node.type = "Spacer" ->
               [chain |-> chain,
                env |-> [env EXCEPT !.workarea =
                            Spacer_format(node.value, env.workarea,
                                          chain.nodes[before],
                                          chain.field_exists[before])]]
          [] node.type = "LineWidth" ->
               Node_evaluated(chain, env,
                              LineWidth_eval(node, env.record, env.workarea, chain.case,
                                             0, env.MAX_LINE_WIDTH)
                                  @@ [text |-> <<>>, visited |-> env.visited])
          [] node.type = "Proc" ->
               [Node_emit(chain, env, <<>>, env.MAX_LINE_WIDTH) EXCEPT !.env.record =
                    Proc_eval(node, env.record, env.workarea, chain.case, 0,
                              env.MAX_LINE_WIDTH)]
          [] node.type = "RepeatableGroup" ->
               Node_evaluated(chain, env,
                              RepeatableGroup_eval(node, env.record, env.workarea, chain,
                                                   env.MAX_LINE_WIDTH))
          [] node.type = "Number" ->
               Node_emit(chain, env, unicode(node.value), env.MAX_LINE_WIDTH)
          [] node.type = "Variable" ->
               Node_emit(chain, env, Variable_eval(node, chain.variables, chain.case),
                         env.MAX_LINE_WIDTH)
          [] node.type = "Attr" -> Attr_format(chain, env, node)
          \* a RepeatableLiteral is skipped; break and continue leave
          \* LeafNode.format before anything is appended
          [] OTHER -> [chain |-> chain, env |-> env]

\* format_chain from the prologue on: the loop over the nodes from pos on;
\* formatted is the chain and the env so far
RECURSIVE format_nodes(_, _)
format_nodes(formatted, pos) ==
    IF pos > Len(formatted.chain.nodes) \/ formatted.env.raised THEN formatted
    ELSE format_nodes(Node_format(formatted.chain, pos, formatted.env), pos + 1)

\* output = "".join(local_workarea)
format_output(formatted) ==
    [chain |-> formatted.chain, env |-> formatted.env,
     output |-> join(formatted.env.workarea)]

\* format_chain: mode p and case l, every node formatted, the workarea joined
format_chain(rec, MAX_LINE_WIDTH, chain) ==
    format_output(format_nodes([chain |-> [chain EXCEPT !.mode = "p", !.case = "l",
                                                        !.variables = <<>>],
                                env |-> Env(rec, MAX_LINE_WIDTH)], 1))

----------------------------------------------------------------------------
(* session.format.  Every session has its own Config; _cache is the one     *)
(* dictionary of the module.  A call is taken apart into its steps: the     *)
(* lookup or compilation with the prologue of format_chain, one step for    *)
(* every node of the chain, and the return.                                 *)

Sessions == {"A", "B"}

\* Config.MAX_LINE_WIDTH as Config.__init__ sets it
DefaultLineWidth == 79

\* calls of format per session
MaxCalls == 2

master == <<mftype, nxtmfn, nxtmfb, nxtmfp, ctl, mst, mstSize, mstDirty,
            xrfFd, xrfDirty, xrf, xrfLoaded, pc, pend, lastOp, nsaves>>

\* an exception other than the SyntaxError of the lexer
Failure(what) == [error |-> what, character |-> "", position |-> -1]

NoNode == [type |-> "none"]

\* a session that is in no call
NoFrame ==
    [pc |-> "idle", tokens |-> <<>>, key |-> <<>>, record |-> <<>>, pos |-> 0,
     env |-> Env(<<>>, 0), lw |-> 0, result |-> <<>>, error |-> Failure("none"),
     ncalls |-> 0, last |-> NoNode, before |-> Env(<<>>, 0)]

\* session.parser.parse(expr) for an expression the lexer accepts: the ast
\* of the statement.  When the grammar rejects a token, p_error prints and
\* returns; the generated parser then drops what it has read and goes on
\* with the tokens after the rejected one, so that parse returns None or
\* the ast of a rest of the expression.
parse(expr) ==
    IF statement(expr).accepted THEN {statement(expr).ast}
    ELSE {<<>>} \cup {statement(SubSeq(expr, i, Len(expr))).ast :
                        i \in {j \in 2..Len(expr) :
                                 statement(SubSeq(expr, j, Len(expr))).accepted}}

\* format(expr, record, session): the lookup in _cache or the compilation,
\* then lw = mst.config.MAX_LINE_WIDTH and the prologue of format_chain
Call(s, expr, record) ==
    /\ frame[s].pc # "running"
    /\ frame[s].ncalls < MaxCalls
    /\ \E key \in {source(expr)}, lexpos \in {lexpos_of_error(expr, 0)} :
       \E called \in {[NoFrame EXCEPT !.tokens = expr, !.key = key, !.record = record,
                                      !.lw = config[s].MAX_LINE_WIDTH,
                                      !.ncalls = frame[s].ncalls + 1]} :
          IF key \notin DOMAIN _cache /\ lexpos >= 0
          THEN /\ frame' = [frame EXCEPT ![s] =
                              [called EXCEPT !.pc = "raised",
                                             !.error = SyntaxError(key[lexpos + 1], lexpos)]]
               /\ UNCHANGED _cache
          ELSE /\ \E ast \in (IF key \in DOMAIN _cache THEN {_cache[key].nodes}
                              ELSE parse(expr)) :
                  _cache' = [k \in DOMAIN _cache \cup {key} |->
                               IF k # key THEN _cache[k]
                               ELSE IF key \in DOMAIN _cache
                               THEN [_cache[key] EXCEPT !.mode = "p", !.case = "l",
                                                        !.variables = <<>>]
                               ELSE flatten(ast)]
               /\ frame' = [frame EXCEPT ![s] =
                              [called EXCEPT !.pc = "running", !.pos = 1,
                                             !.env = Env(record, config[s].MAX_LINE_WIDTH)]]
    /\ UNCHANGED <<config, master, refs, lexer>>

\* format_chain: node.format for the node the call is at
Step(s) ==
    /\ frame[s].pc = "running"
    /\ frame[s].pos <= Len(_cache[frame[s].key].nodes)
    /\ \E f \in {frame[s]} :
       \E before \in {[f.env EXCEPT !.MAX_LINE_WIDTH = config[s].MAX_LINE_WIDTH]} :
       \E r \in {Node_format(_cache[f.key], f.pos, before)} :
          /\ _cache' = [_cache EXCEPT ![f.key] = r.chain]
          /\ config' = [config EXCEPT ![s].MAX_LINE_WIDTH = r.env.MAX_LINE_WIDTH]
          /\ frame' = [frame EXCEPT ![s] =
                         [f EXCEPT !.env = r.env,
                                   !.pos = f.pos + 1,
                                   !.last = _cache[f.key].nodes[f.pos],
                                   !.before = before,
                                   !.pc = IF r.env.raised THEN "raised" ELSE "running",
                                   !.error = IF r.env.raised THEN Failure(r.env.error)
                                             ELSE f.error]]
    /\ UNCHANGED <<master, refs, lexer>>

\* format_chain returns the joined workarea; format restores MAX_LINE_WIDTH
\* and returns the text (its encoding leaves the characters of the model as
\* they are)
Return(s) ==
    /\ frame[s].pc = "running"
    /\ frame[s].pos > Len(_cache[frame[s].key].nodes)
    /\ config' = [config EXCEPT ![s].MAX_LINE_WIDTH = frame[s].lw]
    /\ frame' = [frame EXCEPT ![s].pc = "returned",
                              ![s].result = join(frame[s].env.workarea)]
    /\ UNCHANGED <<_cache, master, refs, lexer>>

----------------------------------------------------------------------------
(* Specifications of the formatter                                          *)

\* the sessions in no call, every Config with a MAX_LINE_WIDTH of widths, the
\* database left as it is created
SessionInit(widths) ==
    /\ MasterInit
    /\ mftype = 0
    /\ nxtmfn = 1
    /\ _cache = <<>>
    /\ config \in [Sessions -> [MAX_LINE_WIDTH : widths]]
    /\ frame = [s \in Sessions |-> NoFrame]
    /\ NoRefs
    /\ lexer = NewLexer

\* lw(5),lw('x') and lw(5),v10; mpu,v10 and v10; v10? with a character of no
\* lexer rule; v10) and )v10, which the grammar rejects
FormatExprs ==
    {<<LW, LPAREN, Num(<<"5">>), RPAREN, COMMA, LW, LPAREN, Lit(<<"x">>), RPAREN>>,
     <<LW, LPAREN, Num(<<"5">>), RPAREN, COMMA, V(10)>>,
     <<MPU, COMMA, V(10)>>,
     <<V(10)>>,
     <<V(10), Illegal("?")>>,
     <<V(10), RPAREN>>,
     <<RPAREN, V(10)>>}

FormatRecords == {(10 :> [container |-> FALSE, occs |-> <<(<<"a", "b">>)>>])}

FormatNext ==
    \/ \E s \in Sessions, expr \in FormatExprs, record \in FormatRecords :
          Call(s, expr, record)
    \/ \E s \in Sessions : Step(s)
    \/ \E s \in Sessions : Return(s)

\* two sessions formatting at the same time
FormatSpec == SessionInit({DefaultLineWidth}) /\ [][FormatNext]_vars

\* |, |v10 and v10+|, |; (v90+|; |) and (|; |+v90); (v10/), (continue,v10/)
\* and (v10,continue,/); proc('a70 new text'),v70; 'a b','abc de'
PftExprs ==
    {<<RLit(<<",", " ">>), V(10)>>,
     <<V(10), PLUS, RLit(<<",", " ">>)>>,
     <<LPAREN, V(90), PLUS, RLit(<<";", " ">>), RPAREN>>,
     <<LPAREN, RLit(<<";", " ">>), PLUS, V(90), RPAREN>>,
     <<LPAREN, V(10), SLASH, RPAREN>>,
     <<LPAREN, CONTINUE, COMMA, V(10), SLASH, RPAREN>>,
     <<LPAREN, V(10), COMMA, CONTINUE, COMMA, SLASH, RPAREN>>,
     <<PROC, LPAREN, Lit(<<"a", "7", "0", " ", "n", "e", "w", " ", "t", "e", "x", "t">>),
       RPAREN, COMMA, V(70)>>,
     <<Lit(<<"a", " ", "b">>), COMMA, Lit(<<"a", "b", "c", " ", "d", "e">>)>>}

PftRecords ==
    {(10 :> [container |-> TRUE, occs |-> <<(<<"A">>), <<"B">>, <<"C">>>>])
     @@ (90 :> [container |-> TRUE,
                occs |-> << <<"a", "l", "p", "h", "a">>, <<"b", "e", "t", "a">>,
                            <<"g", "a", "m", "m", "a">> >>]),
     (10 :> [container |-> FALSE, occs |-> <<(<<"a", "b">>)>>])
     @@ (70 :> [container |-> FALSE, occs |-> <<(<<"o", "l", "d">>)>>])}

\* a MAX_LINE_WIDTH shorter than the texts, and the one of Config
PftWidths == {6, DefaultLineWidth}

PftNext ==
    \/ \E expr \in PftExprs, record \in PftRecords : Call("A", expr, record)
    \/ Step("A")
    \/ Return("A")

\* one session formatting records
PftSpec == SessionInit(PftWidths) /\ [][PftNext]_vars

----------------------------------------------------------------------------
(* Properties of the formatter *)

\* C13: a call of format that is over, whether it returned or raised, leaves
\* MAX_LINE_WIDTH of the configuration at the value it had before the call
C13_LineWidthRestored ==
    \A s \in Sessions :
        frame[s].pc \in {"returned", "raised"}
            => config[s].MAX_LINE_WIDTH = frame[s].lw

\* the outcomes of format_chain for the call session s is in when no step of
\* another call comes between its steps, whatever field_exists an earlier
\* call left on the nodes of the chain
Sequential(s) ==
    LET nodes == _cache[frame[s].key].nodes
    IN  {format_chain(frame[s].record, frame[s].lw,
                      [flatten(nodes) EXCEPT !.field_exists = field_exists]) :
            field_exists \in [1..Len(nodes) -> BOOLEAN]}

\* C14: a call of format made through one session, its steps interleaved with
\* those of a call made through another session, returns the text it returns
\* when the two calls run one after the other
C14_SessionsIsolated ==
    \A s \in Sessions :
        frame[s].pc = "returned"
            => \E alone \in Sequential(s) :
                   ~alone.env.raised /\ alone.output = frame[s].result

\* C19: a call of format with an expression that the lexer or the parser
\* rejects ends with a syntax error for the caller that names the rejected
\* character and its position, and returns no text
C19_SyntaxErrorPropagated ==
    \A s \in Sessions :
        LET f == frame[s]
        IN  (/\ f.pc \in {"returned", "raised"}
             /\ (lexpos_of_error(f.tokens, 0) >= 0 \/ ~statement(f.tokens).accepted))
                => /\ f.pc = "raised"
                   /\ f.error.error = "SyntaxError"
                   /\ f.error.position \in 0..(Len(f.key) - 1)
                   /\ f.error.character = f.key[f.error.position + 1]

\* the largest number of a set of naturals, 0 for the empty set
MaxOf(S) == IF S = {} THEN 0 ELSE CHOOSE x \in S : \A y \in S : y <= x

\* C15: a repeatable group evaluates its body for the occurrence indices
\* 1..N in increasing order, N the largest repeat count of its nodes, and
\* for 1..N+1 when a continue node stands anywhere in the group (groups left
\* by break or by an exception set aside)
C15_GroupOccurrences ==
    \A s \in Sessions :
        LET f == frame[s]
            body == f.last.value
            counts == {max_repeat(body[i], f.before.record) : i \in 1..Len(body)}
            N == MaxOf(counts)
            last == IF \E i \in 1..Len(body) : body[i].type = "Continue"
                    THEN N + 1 ELSE N
        IN  (/\ f.last.type = "RepeatableGroup"
             /\ ~f.env.raised
             /\ \A i \in 1..Len(body) : body[i].type # "Break")
                => f.env.visited = [occ \in 1..last |-> occ]

\* the text of a field selector as the '+' rule gives it: every occurrence
\* between the prefix and the suffix, a '+' prefix left out before the first
\* occurrence and a '+' suffix after the last one
RECURSIVE PlusRule(_, _, _, _)
PlusRule(occs, i, r, l) ==
    IF i > Len(occs) THEN <<>>
    ELSE (IF r.set /\ ~(r.plus /\ i = 1) THEN r.value ELSE <<>>)
         \o occs[i]
         \o (IF l.set /\ ~(l.plus /\ i = Len(occs)) THEN l.value ELSE <<>>)
         \o PlusRule(occs, i + 1, r, l)

\* the nodes are one field selector: the Field between its literals
IsFieldSelector(nodes) ==
    /\ \E i \in 1..Len(nodes) : nodes[i].type = "Field"
    /\ \A i \in 1..Len(nodes) : nodes[i].type \in {"Field", "RepeatableLiteral"}

\* C16: in mode P and within the line width, a field selector alone or alone
\* in a repeatable group emits the occurrences of its field with the prefix
\* and suffix literals, where a '+' flag suppresses the prefix before the
\* first occurrence and the suffix after the last one, and only there:
\* v10+|, | emits 'A, B, C', (v90+|; |) emits 'alpha; beta; gamma'
C16_PlusSuppressesAtTheBoundary ==
    \A s \in Sessions :
        LET f == frame[s]
            chain == _cache[f.key].nodes
            selector == IF chain[1].type = "RepeatableGroup" THEN chain[1].value
                        ELSE chain
            field == selector[CHOOSE i \in 1..Len(selector) : selector[i].type = "Field"]
            occs == IF field.tag \in DOMAIN f.record THEN f.record[field.tag].occs
                    ELSE <<>>
        IN  (/\ f.pc = "returned"
             /\ f.lw = DefaultLineWidth
             /\ chain # <<>>
             /\ IsFieldSelector(selector)
             /\ chain[1].type = "RepeatableGroup" => Len(chain) = 1)
                => f.result = PlusRule(occs, 1, field.r_repeatableLiteral,
                                       field.l_repeatableLiteral)

\* C17: proc() with the text a<tag> <value> emits no text and appends to the
\* record one occurrence of the tag whose data is the value, after the
\* occurrences the tag has, leaving the other fields as they are
C17_ProcAddsField ==
    \A s \in Sessions :
        LET f == frame[s]
            text == f.last.value[1].value
            blank == find(text, SINGLESPACE)
            tag == int(PySlice(text, 1, blank)).value
            value == PyFrom(text, blank + 1)
            old == f.before.record
        IN  (/\ f.last.type = "Proc"
             /\ Len(f.last.value) = 1
             /\ f.last.value[1].type = "InconditionalLiteral"
             /\ text[1] = "a" /\ blank > 1 /\ ~int(PySlice(text, 1, blank)).raised)
                => /\ join(f.env.workarea) = join(f.before.workarea)
                   /\ DOMAIN f.env.record = DOMAIN old \cup {tag}
                   /\ \A t \in DOMAIN old \ {tag} : f.env.record[t] = old[t]
                   /\ f.env.record[tag].occs =
                          (IF tag \in DOMAIN old THEN old[tag].occs ELSE <<>>)
                          \o <<value>>

\* C18: while MAX_LINE_WIDTH is the one the call began with, no line of the
\* workarea is longer than MAX_LINE_WIDTH unless it is a single word without
\* spaces; and break_line cuts the literals of the chain into pieces none of
\* which is longer than max_width unless it is such a word
C18_LineWidth ==
    \A s \in Sessions :
        LET f == frame[s]
            output == lines(join(f.env.workarea))
            chain == _cache[f.key].nodes
            fits(line, width) == Len(line) <= width \/ find(line, SINGLESPACE) = -1
        IN  (f.pc \in {"running", "returned"} /\ f.env.MAX_LINE_WIDTH = f.lw)
                => /\ \A i \in 1..Len(output) : fits(output[i], f.lw)
                   /\ \A i \in 1..Len(chain) :
                          chain[i].type = "InconditionalLiteral"
                              => LET pieces == break_line(chain[i].value, f.lw - 1, <<>>)
                                 IN  \A j \in 1..Len(pieces) : fits(pieces[j], f.lw - 1)

----------------------------------------------------------------------------
(* C21: break and continue *)

\* (v10,break,/) and 'x',(v10,break),'y'; (v10,s1:=continue,/); 'x',break,'y';
\* 'x',s1:=break and s1:='x',s1
BreakExprs ==
    {<<LPAREN, V(10), COMMA, BREAK, COMMA, SLASH, RPAREN>>,
     <<Lit(<<"x">>), COMMA, LPAREN, V(10), COMMA, BREAK, RPAREN, COMMA, Lit(<<"y">>)>>,
     <<LPAREN, V(10), COMMA, S1, ATTR, CONTINUE, COMMA, SLASH, RPAREN>>,
     <<Lit(<<"x">>), COMMA, BREAK, COMMA, Lit(<<"y">>)>>,
     <<Lit(<<"x">>), COMMA, S1, ATTR, BREAK>>,
     <<S1, ATTR, Lit(<<"x">>), COMMA, S1>>}

BreakNext ==
    \/ \E expr \in BreakExprs, record \in PftRecords : Call("A", expr, record)
    \/ Step("A")
    \/ Return("A")

\* one session formatting records with expressions that hold break and continue
BreakSpec == SessionInit({DefaultLineWidth}) /\ [][BreakNext]_vars

\* the expression holds a break or a continue
Signals(tokens) == \E i \in 1..Len(tokens) : tokens[i] \in {BREAK, CONTINUE}

\* C21: a break in a repeatable group ends the iteration, so that no later
\* occurrence is evaluated, and a break or continue anywhere in an expression
\* never reaches the caller of format as an error
C21_BreakAndContinueContained ==
    \A s \in Sessions :
        LET f == frame[s]
        IN  /\ (f.pc \in {"returned", "raised"} /\ Signals(f.tokens)) => f.pc = "returned"
            /\ (/\ f.pc = "running"
                /\ f.last.type = "RepeatableGroup"
                /\ \E i \in 1..Len(f.last.value) : f.last.value[i].type = "Break")
                   => f.env.visited = <<1>>


----------------------------------------------------------------------------
(* C23: the spacers *)

\* 'x',# and 'x',/,/; / at the start and # at the start; v70,# and v10,/;
\* 'x',#,#,#,% and #,s1,#,%
SpacerExprs ==
    {<<Lit(<<"x">>), COMMA, SHARP>>,
     <<Lit(<<"x">>), COMMA, SLASH, COMMA, SLASH>>,
     <<SLASH, COMMA, Lit(<<"x">>)>>,
     <<SHARP, COMMA, SLASH>>,
     <<V(70), COMMA, SHARP>>,
     <<V(10), COMMA, SLASH>>,
     <<Lit(<<"x">>), COMMA, SHARP, COMMA, SHARP, COMMA, SHARP, COMMA, PERCENT>>,
     <<SHARP, COMMA, S1, COMMA, SHARP, COMMA, PERCENT>>}

SpacerNext ==
    \/ \E expr \in SpacerExprs, record \in PftRecords : Call("A", expr, record)
    \/ Step("A")
    \/ Return("A")

\* one session formatting records with expressions that hold spacers
SpacerSpec == SessionInit({DefaultLineWidth}) /\ [][SpacerNext]_vars

\* the text after the last line separator of text
RECURSIVE current_line(_)
current_line(text) ==
    IF text = <<>> \/ text[Len(text)] = linesep THEN <<>>
    ELSE current_line(SubSeq(text, 1, Len(text) - 1)) \o <<text[Len(text)]>>

\* two lines of text, one after the other, that hold no character
consecutive_empty_lines(text) ==
    \E i \in 1..(Len(text) - 1) :
        /\ text[i] = linesep
        /\ text[i + 1] = linesep
        /\ i = 1 \/ text[i - 1] = linesep

\* the spacer of value has just been formatted at top level by session s
Spaced(s, value) ==
    /\ frame[s].pc = "running"
    /\ frame[s].last = Spacer(value)

\* C23: '#' appends one line separator to the output whatever precedes it;
\* '/' appends a line separator when the current last line holds text and
\* nothing when it is empty (at the start of the output, after a line
\* separator); after '%' the output has no two consecutive empty lines
C23_Spacers ==
    \A s \in Sessions :
        LET output == join(frame[s].env.workarea)
            earlier == join(frame[s].before.workarea)
        IN  /\ Spaced(s, "#") => output = earlier \o <<linesep>>
            /\ Spaced(s, "/") =>
                   output = IF current_line(earlier) # <<>>
                            THEN earlier \o <<linesep>> ELSE earlier
            /\ Spaced(s, "%") => ~consecutive_empty_lines(output)

\* the parts of C23 on their own: '#', '/' at the start of the output, '/'
\* after some output, '%'
C23_SharpAppends ==
    \A s \in Sessions :
        Spaced(s, "#") =>
            join(frame[s].env.workarea) = join(frame[s].before.workarea) \o <<linesep>>

C23_SlashAtStart ==
    \A s \in Sessions :
        (Spaced(s, "/") /\ frame[s].before.workarea = <<>>)
            => frame[s].env.workarea = <<>>

C23_SlashAfterText ==
    \A s \in Sessions :
        (Spaced(s, "/") /\ join(frame[s].before.workarea) # <<>>) =>
            join(frame[s].env.workarea) =
                IF current_line(join(frame[s].before.workarea)) # <<>>
                THEN join(frame[s].before.workarea) \o <<linesep>>
                ELSE join(frame[s].before.workarea)

C23_PercentSqueezes ==
    \A s \in Sessions :
        Spaced(s, "%") => ~consecutive_empty_lines(join(frame[s].env.workarea))


----------------------------------------------------------------------------
(* C29: the text of format and the formatters kept in _cache *)

\* #,v70 and /,v10, whose spacer looks at the last node of the chain; v70,#
\* and 'x',v10
CachedExprs ==
    {<<SHARP, COMMA, V(70)>>,
     <<SLASH, COMMA, V(10)>>,
     <<V(70), COMMA, SHARP>>,
     <<Lit(<<"x">>), COMMA, V(10)>>}

CachedNext ==
    \/ \E expr \in CachedExprs, record \in PftRecords : Call("A", expr, record)
    \/ Step("A")
    \/ Return("A")

\* one session calling format several times, the later calls with formatters
\* of _cache
CachedSpec == SessionInit({DefaultLineWidth}) /\ [][CachedNext]_vars

\* format_chain of a formatter compiled for the call session s is in
FreshlyCompiled(s) ==
    format_chain(frame[s].record, frame[s].lw, flatten(_cache[frame[s].key].nodes))

\* C29: the text format returns is the text a freshly compiled formatter of
\* the expression returns for the record and the MAX_LINE_WIDTH of the call,
\* whatever was formatted before
C29_OutputFunctionOfInputs ==
    \A s \in Sessions :
        frame[s].pc = "returned"
            => /\ ~FreshlyCompiled(s).env.raised
               /\ frame[s].result = FreshlyCompiled(s).output


----------------------------------------------------------------------------
(* C22: Ref.eval and _ref_record_cache.  The database of the model is the   *)
(* database cds of the collection col, registered in Engine.collection; the *)
(* record being formatted belongs to a database of the same collection.     *)

\* what the first parameter of ref evaluates to: the number of a numeric
\* expression, or the text of a field
IntKey(n) == <<"int">> \o unicode(n)
TextKey(chars) == <<"unicode">> \o chars

\* int(mfn) of MasterFile.__getitem__
int_mfn(record_mfn) == int(Tail(record_mfn))

\* mst.collection_name of the record being formatted
collection_name == <<"c", "o", "l">>

\* the database of the model as Engine.collection knows it
db_name == <<"c", "d", "s">>

\* the collection and the database a dbase names: "collection.database", or
\* the database alone for the collection of the current master file
target(dbase) ==
    IF \E i \in 1..Len(dbase) : dbase[i] = "."
    THEN LET parts == split(dbase, ".")
         IN  IF Len(parts) = 2
             THEN [ok |-> TRUE, collection |-> parts[1], db |-> parts[2]]
             ELSE [ok |-> FALSE, collection |-> <<>>, db |-> <<>>]
    ELSE [ok |-> TRUE, collection |-> collection_name, db |-> dbase]

\* Engine.collection[collection_name][db_name] finds the database
registered(t) == t.ok /\ t.collection = collection_name /\ t.db = db_name

\* ref->cds and ref(['col.cds'] ...)
RefDbases == {db_name, collection_name \o <<".">> \o db_name}

\* ref->cds(1, ...) and ref->cds(v20, ...) for a field 20 that holds '1'
RefMfns == {IntKey(1), TextKey(<<"1">>)}

\* fcache[record_mfn]: the entry, or the KeyError
ref_lookup_miss(fcache, record_mfn) == [hit |-> FALSE, record |-> <<>>]

ref_lookup(fcache, record_mfn) ==
    IF record_mfn \in DOMAIN fcache
    THEN [hit |-> TRUE, record |-> fcache[record_mfn]]
    ELSE [hit |-> FALSE, record |-> <<>>]

\* the records the cache holds, under any dbase and any key, for the database
\* and the record number that dbase and record_mfn name
Memoized(dbase, record_mfn) ==
    {_ref_record_cache[p[1]][p[2]] :
        p \in {q \in (DOMAIN _ref_record_cache) \X RefMfns :
                  /\ target(q[1]) = target(dbase)
                  /\ q[2] \in DOMAIN _ref_record_cache[q[1]]
                  /\ int_mfn(q[2]) = int_mfn(record_mfn)}}

\* Ref.eval of ref with a database, up to new_record, the record its format
\* is applied to.  The cache of the dbase is created when it is missing; on a
\* miss the record is read with target_mst[record_mfn] and kept.  When the
\* read raises, the second attempt, through a MasterFile opened on the file
\* search_path finds, raises as well.
RefEval(dbase, record_mfn) ==
    /\ pc = "idle"
    /\ \E fcache \in {IF dbase \in DOMAIN _ref_record_cache
                      THEN _ref_record_cache[dbase] ELSE <<>>} :
       \E found \in {ref_lookup(fcache, record_mfn)},
          x \in {getitem(xrfFd, xrf, xrfLoaded, int_mfn(record_mfn).value, XL)},
          ref \in {[NoRef EXCEPT !.dbase = dbase, !.record_mfn = record_mfn,
                                 !.cached = dbase \in DOMAIN _ref_record_cache
                                            /\ record_mfn \in DOMAIN fcache,
                                 !.memo = Memoized(dbase, record_mfn),
                                 !.current = Fetched(int_mfn(record_mfn).value)]} :
          IF found.hit
          THEN /\ lastRef' = [ref EXCEPT !.ok = TRUE, !.new_record = found.record]
               /\ _ref_record_cache' = _ref_record_cache
               /\ UNCHANGED <<xrfFd, xrf, xrfLoaded>>
          ELSE IF ~registered(target(dbase))
          THEN /\ lastRef' = ref
               /\ _ref_record_cache' = (dbase :> fcache) @@ _ref_record_cache
               /\ UNCHANGED <<xrfFd, xrf, xrfLoaded>>
          ELSE /\ xrfFd' = x.fd
               /\ xrf' = x.xrf
               /\ xrfLoaded' = x.loaded
               /\ IF Fetched(int_mfn(record_mfn).value).kind = "error"
                  THEN /\ lastRef' = ref
                       /\ _ref_record_cache' = (dbase :> fcache) @@ _ref_record_cache
                  ELSE /\ lastRef' = [ref EXCEPT
                                         !.ok = TRUE, !.fetched = TRUE,
                                         !.new_record = Fetched(int_mfn(record_mfn).value)]
                       /\ _ref_record_cache' =
                              (dbase :> ((record_mfn :> Fetched(int_mfn(record_mfn).value))
                                         @@ fcache))
                              @@ _ref_record_cache
    /\ UNCHANGED <<_cache, config, frame, lexer>>
    /\ UNCHANGED <<mftype, nxtmfn, nxtmfb, nxtmfp, ctl, mst, mstSize, mstDirty,
                   xrfDirty, pc, pend, lastOp, nsaves>>

\* the record that replaces record 1
RefUpdate == <<C(10, <<"a", "bb">>)>>

\* updates of record 1 and its deletion, with references in between
RefNext ==
    \/ \E dbase \in RefDbases, record_mfn \in RefMfns : RefEval(dbase, record_mfn)
    \/ SaveRecord(RefUpdate, 1, FALSE, FALSE)
    \/ SaveXrf
    \/ Delete(1)

\* the existing database, record 1 active
RefInit ==
    /\ Init
    /\ mftype = 0
    /\ nxtmfn = 4

RefSpec == RefInit /\ [][RefNext]_vars

\* every entry of the cache stays, with its record
EntriesKept ==
    \A dbase \in DOMAIN _ref_record_cache :
        /\ dbase \in DOMAIN _ref_record_cache'
        /\ \A record_mfn \in DOMAIN _ref_record_cache[dbase] :
               /\ record_mfn \in DOMAIN _ref_record_cache'[dbase]
               /\ _ref_record_cache'[dbase][record_mfn] =
                      _ref_record_cache[dbase][record_mfn]

----------------------------------------------------------------------------
(* C30: the lexer of a session.  PftLexer wraps one PLY lexer for the life  *)
(* of the session; lexer.input(data) replaces lexdata and lexpos and leaves *)
(* lexstate, lexstatestack and the attributes the rules set as they are.    *)
(* The rules are those for the characters ' | " v , a, the digits, the      *)
(* blank and the newline.                                                   *)

IsDigit(ch) == \E d \in 1..10 : Digits[d] = ch

\* [a-zA-Z_], and [a-zA-Z_0-9]
IsLetter(ch) == ch \in {"a", "v"}
IsWordChar(ch) == IsLetter(ch) \/ IsDigit(ch)

\* t_ignore of the state INITIAL
t_ignore == {" ", "\n"}

\* the exclusive state a character opens and closes
LiteralState(ch) ==
    CASE ch = "'" -> "inconditionalLiteral"
      [] ch = "|" -> "repeatableLiteral"
      [] ch = "\"" -> "conditionalLiteral"
      [] OTHER -> ""

LiteralToken(state) ==
    CASE state = "inconditionalLiteral" -> "INCONDITIONALLITERAL"
      [] state = "repeatableLiteral" -> "REPEATABLELITERAL"
      [] OTHER -> "CONDITIONALLITERAL"

LiteralStates == {"inconditionalLiteral", "repeatableLiteral", "conditionalLiteral"}

\* the end of the match of \d+ or of [a-zA-Z_0-9]* from a position
RECURSIVE match_end(_, _, _)
match_end(lexdata, lexpos, digits) ==
    IF lexpos < Len(lexdata)
       /\ (IF digits THEN IsDigit(lexdata[lexpos + 1]) ELSE IsWordChar(lexdata[lexpos + 1]))
    THEN match_end(lexdata, lexpos + 1, digits)
    ELSE lexpos

\* lexdata[i:j]
slice(lexdata, i, j) == IF i < j THEN SubSeq(lexdata, i + 1, j) ELSE <<>>

\* lexdata.endswith(value)
endswith(lexdata, value) ==
    /\ Len(value) <= Len(lexdata)
    /\ slice(lexdata, Len(lexdata) - Len(value), Len(lexdata)) = value

LexToken(type, value, tagfield) == [type |-> type, value |-> value, tagfield |-> tagfield]

NoToken == LexToken("", <<>>, NoTagfield)

push_state(lx, state) ==
    [lx EXCEPT !.lexstatestack = Append(lx.lexstatestack, lx.lexstate),
               !.lexstate = state]

pop_state(lx) ==
    [lx EXCEPT !.lexstate = lx.lexstatestack[Len(lx.lexstatestack)],
               !.lexstatestack = SubSeq(lx.lexstatestack, 1, Len(lx.lexstatestack) - 1)]

\* what a call of token() does: a token, None at the end of the data, or an
\* exception
Gives(lx, tok) == [lexer |-> lx, out |-> "token", tok |-> tok]
Ends(lx) == [lexer |-> lx, out |-> "none", tok |-> NoToken]
Fails(lx, error) == [lexer |-> [lx EXCEPT !.error = error], out |-> "raise", tok |-> NoToken]

\* finish_tagfield: the token takes the tagfield, the attribute is deleted
\* and the state popped
finish_tagfield(lx) ==
    IF lx.tagfield = NoTagfield THEN Fails(lx, "AttributeError")
    ELSE IF lx.lexstatestack = <<>> THEN Fails([lx EXCEPT !.tagfield = NoTagfield], "IndexError")
    ELSE Gives(pop_state([lx EXCEPT !.tagfield = NoTagfield]),
               LexToken("VFIELD", <<>>, lx.tagfield))

\* t_VFIELD for the match lexdata[lexpos:end]: the field is finished at once
\* when the data ends with the text of the match or a comma follows
t_VFIELD(lx, end) ==
    [finished |-> \/ endswith(lx.lexdata, slice(lx.lexdata, lx.lexpos, end))
                  \/ lx.lexdata[end + 1] = ",",
     lexer |-> push_state([lx EXCEPT
                   !.lexpos = end,
                   !.tagfield = [tag |-> int_digits(slice(lx.lexdata, lx.lexpos + 1, end), 0),
                                 type |-> lx.lexdata[lx.lexpos + 1]]],
                   "tagfield")]

\* lexer.token()
RECURSIVE token(_)
token(lx) ==
    IF lx.lexpos >= Len(lx.lexdata) THEN Ends([lx EXCEPT !.lexpos = lx.lexpos + 1])
    ELSE IF lx.lexstate \in LiteralStates
    THEN IF LiteralState(lx.lexdata[lx.lexpos + 1]) = lx.lexstate
         THEN IF lx.lexstatestack = <<>> THEN Fails(lx, "IndexError")
              ELSE Gives(pop_state([lx EXCEPT !.lexpos = lx.lexpos + 1]),
                         LexToken(LiteralToken(lx.lexstate),
                                  slice(lx.lexdata, lx.literal_start, lx.lexpos),
                                  NoTagfield))
         ELSE token([lx EXCEPT !.lexpos = lx.lexpos + 1])
    ELSE IF lx.lexstate = "tagfield"
    THEN IF lx.lexdata[lx.lexpos + 1] = "\n" THEN Fails(lx, "SyntaxError")
         ELSE finish_tagfield(lx)
    ELSE IF lx.lexdata[lx.lexpos + 1] \in t_ignore
    THEN token([lx EXCEPT !.lexpos = lx.lexpos + 1])
    ELSE IF LiteralState(lx.lexdata[lx.lexpos + 1]) # ""
    THEN token(push_state([lx EXCEPT !.lexpos = lx.lexpos + 1,
                                     !.literal_start = lx.lexpos + 1],
                          LiteralState(lx.lexdata[lx.lexpos + 1])))
    ELSE IF /\ lx.lexdata[lx.lexpos + 1] = "v"
            /\ match_end(lx.lexdata, lx.lexpos + 1, TRUE) > lx.lexpos + 1
    THEN IF t_VFIELD(lx, match_end(lx.lexdata, lx.lexpos + 1, TRUE)).finished
         THEN finish_tagfield(t_VFIELD(lx, match_end(lx.lexdata, lx.lexpos + 1, TRUE)).lexer)
         ELSE token(t_VFIELD(lx, match_end(lx.lexdata, lx.lexpos + 1, TRUE)).lexer)
    ELSE IF IsDigit(lx.lexdata[lx.lexpos + 1])
    THEN Gives([lx EXCEPT !.lexpos = match_end(lx.lexdata, lx.lexpos, TRUE)],
               LexToken("NUMBER",
                        slice(lx.lexdata, lx.lexpos, match_end(lx.lexdata, lx.lexpos, TRUE)),
                        NoTagfield))
    ELSE IF IsLetter(lx.lexdata[lx.lexpos + 1])
    THEN Gives([lx EXCEPT !.lexpos = match_end(lx.lexdata, lx.lexpos, FALSE)],
               LexToken("KEYWORD",
                        slice(lx.lexdata, lx.lexpos, match_end(lx.lexdata, lx.lexpos, FALSE)),
                        NoTagfield))
    ELSE IF lx.lexdata[lx.lexpos + 1] = ","
    THEN Gives([lx EXCEPT !.lexpos = lx.lexpos + 1],
               LexToken("COMMA", <<",">>, NoTagfield))
    ELSE Fails(lx, "SyntaxError")

\* lexer.input(data)
input(lx, data) ==
    [lx EXCEPT !.lexdata = data, !.lexpos = 0, !.tokens = <<>>, !.pc = "lexing",
               !.error = "", !.ninputs = lx.ninputs + 1]

\* the lexer after one more call of token(), as the parser makes them
next_token(lx) ==
    CHOOSE l \in {[token(lx).lexer EXCEPT
                      !.tokens = IF token(lx).out = "token"
                                 THEN Append(lx.tokens, token(lx).tok) ELSE lx.tokens,
                      !.pc = CASE token(lx).out = "token" -> "lexing"
                               [] token(lx).out = "none" -> "idle"
                               [] OTHER -> "raised"]} : TRUE

\* the lexer after the parser has read the data to its end or to the exception
RECURSIVE lexed(_)
lexed(lx) == IF lx.pc # "lexing" THEN lx ELSE lexed(next_token(lx))

\* expressions handed to one session, one after the other
MaxInputs == 2

\* 'a' and v1,'a' and v1'a'; 'a and |a, literals that are not closed; v1
\* followed by a newline, which no rule of the state tagfield matches
LexInputs ==
    {<<"'", "a", "'">>,
     <<"v", "1", ",", "'", "a", "'">>,
     <<"v", "1", "'", "a", "'">>,
     <<"'", "a">>,
     <<"|", "a">>,
     <<"v", "1", "\n", "'", "a", "'">>}

\* parser.parse(expr) hands the expression to the lexer of the session
LexInput(data) ==
    /\ lexer.pc # "lexing"
    /\ lexer.ninputs < MaxInputs
    /\ lexer' = input(lexer, data)
    /\ UNCHANGED <<_cache, config, frame, refs, master>>

\* the parser asks for the next token
LexStep ==
    /\ lexer.pc = "lexing"
    /\ lexer' = next_token(lexer)
    /\ UNCHANGED <<_cache, config, frame, refs, master>>

LexNext ==
    \/ \E data \in LexInputs : LexInput(data)
    \/ LexStep

LexSpec == Init /\ [][LexNext]_vars

\* what the lexer leaves of an input: the tokens and how it ended
Outcome(lx) == [tokens |-> lx.tokens, pc |-> lx.pc, error |-> lx.error]

\* C30: once the lexer of the session has processed an input, to its end or
\* to a lexing error, it is in the state INITIAL with an empty state stack,
\* and the tokens it gave for the input are the tokens a new lexer gives
C30_LexerBackInInitialState ==
    (lexer.ninputs > 0 /\ lexer.pc \in {"idle", "raised"}) =>
        /\ lexer.lexstate = "INITIAL"
        /\ lexer.lexstatestack = <<>>
        /\ Outcome(lexer) = Outcome(lexed(input(NewLexer, lexer.lexdata)))

====
